---- MODULE Spec2Model ----
(***************************************************************************)
(* Model of the tutorial pipeline of commit-comrade-bot:                   *)
(*   AgentOrchestrator.generateTutorial  (services/AgentOrchestrator.ts)   *)
(*   RepoCrawlerAgent.fetchRepoData      (services/agents/RepoCrawlerAgent)*)
(*   CodeAnalyzerAgent.analyzeRepo, TeacherAgent.generateTutorial          *)
(*   TutorialGenerator.handleGenerate    (components/TutorialGenerator.tsx)*)
(*                                                                         *)
(* A JavaScript string is a sequence of atoms (short pieces of text); the  *)
(* string is the concatenation of its atoms.  Template literals and `+`    *)
(* are \o, String.prototype.includes is contiguous-subsequence search.     *)
(* A JavaScript object is a record; an absent key is absent from DOMAIN.   *)
(***************************************************************************)
EXTENDS Integers, Sequences, FiniteSets, TLC

VARIABLES
    \* ---- one generateTutorial call against stand-in collaborators ----
    pc,             \* position of the call: idle, crawl, analyze, teach, done
    repoUrl,        \* the argument of the call
    crawlerResult,  \* local const crawlerResult (NoValue before it is set)
    analyzerResult, \* local const analyzerResult
    agentResults,   \* local agentResults, keys in insertion order
    result,         \* the value the returned promise resolved with
    log,            \* what the collaborators saw and did, in order
    \* ---- RepoCrawlerAgent: the singleton and one fetchRepoData call ----
    mcpEndpointUrl, \* this.config.mcpEndpoint.url
    fpc,            \* position of the call: idle, fetch, json, done
    fRepoUrl,       \* the argument of the call
    fRequestUrl,    \* mcpUrl.toString(), the URL passed to fetch
    fResult,        \* the AgentResponse the call resolved with
    fLog,           \* what new URL, fetch and response.json() did, in order
    \* ---- generateTutorial calls in flight on the singletons ----
    inv,            \* per call: its position, its locals and what it awaits
    \* ---- calls of the classifier and of the assembler on their own ----
    aCalls,         \* the latest analyzeRepo calls: argument and response
    tCalls,         \* the latest TeacherAgent.generateTutorial calls
    \* ---- the TutorialGenerator component ----
    gRepoUrl,       \* state repoUrl: the text of the URL input
    isGenerating,   \* state isGenerating
    learningJourney, \* state learningJourney (JsonNull is null)
    currentAgent,   \* state currentAgent
    toast,          \* the latest toast shown
    handlers,       \* the handleGenerate runs in call order: position, URL, result
    orchestratorCalls \* the arguments of agentOrchestrator.generateTutorial, in order

orchVars == <<pc, repoUrl, crawlerResult, analyzerResult, agentResults, result, log>>

crawlVars == <<mcpEndpointUrl, fpc, fRepoUrl, fRequestUrl, fResult, fLog>>

concVars == <<inv>>

agentVars == <<aCalls, tCalls>>

uiVars ==
    <<gRepoUrl, isGenerating, learningJourney, currentAgent, toast, handlers,
      orchestratorCalls>>

vars == <<orchVars, crawlVars, concVars, agentVars, uiVars>>

----------------------------------------------------------------------------
(* Strings *)

\* s.includes(p): p occurs in s as a contiguous run
Includes(s, p) ==
    \E i \in 0..(Len(s) - Len(p)) :
        \A k \in 1..Len(p) : s[i + k] = p[k]

Last(s) == s[Len(s)]

\* a value that no response, string or record equals
NoValue == [none |-> TRUE]

----------------------------------------------------------------------------
(* AgentResponse, in the two shapes the agents build *)

OkResponse(data, name) == [success |-> TRUE, data |-> data, agentName |-> name]

FailResponse(error, name) == [success |-> FALSE, error |-> error, agentName |-> name]

\* catch (error): error instanceof Error ? error.message : 'Unknown error'
ThrownError(message) == [isError |-> TRUE, message |-> message]

ThrownOther == [isError |-> FALSE]

ErrorMessagePrefixed(thrown) ==
    IF thrown.isError THEN <<"Error: ">> \o thrown.message ELSE <<"Unknown error">>

ErrorMessage(thrown) ==
    IF thrown.isError THEN thrown.message ELSE <<"Unknown error">>

\* the value undefined
Undefined == [undefined |-> TRUE]

\* response.data: undefined when the response has no data key
DataOf(response) ==
    IF "data" \in DOMAIN response THEN response.data ELSE Undefined

\* `${response.error}`: the text "undefined" when the response has no error key
ErrorTextOf(response) ==
    IF "error" \in DOMAIN response THEN response.error ELSE <<"undefined">>

----------------------------------------------------------------------------
(* Bounded inputs of the stand-in collaborators *)

RepoUrls ==
    { <<"https:", "/", "/", "github.com", "/", "acme", "/", "alpha">>,
      <<"https:", "/", "/", "github.com", "/", "acme", "/", "beta">>,
      <<"https:", "/", "/", "github.com", "/", "acme", "/", "alpha", "/">> }

CrawlerData == {[stub |-> "snapshotA"], [stub |-> "snapshotB"]}

AnalyzerData == {[stub |-> "analysisA"], [stub |-> "analysisB"]}

TeacherData == {[stub |-> "tutorialA"], [stub |-> "tutorialB"]}

ErrorTexts ==
    { <<"timeout">>,
      <<"MCP endpoint returned ", "500", ": ", "Internal Server Error">>,
      <<>> }

ThrownValues == {ThrownError(m) : m \in ErrorTexts} \cup {ThrownOther}

Responses(datas, name) ==
    {OkResponse(d, name) : d \in datas} \cup {FailResponse(e, name) : e \in ErrorTexts}

----------------------------------------------------------------------------
(* AgentOrchestrator.generateTutorial *)

\* obj[key] = value on an object whose keys keep insertion order
SetKeyReplacesAll(obj, key, value) == <<[key |-> key, value |-> value]>>

SetKey(obj, key, value) ==
    IF \E i \in 1..Len(obj) : obj[i].key = key
    THEN [i \in 1..Len(obj) |->
            IF obj[i].key = key THEN [key |-> key, value |-> value] ELSE obj[i]]
    ELSE Append(obj, [key |-> key, value |-> value])

Keys(obj) == [i \in 1..Len(obj) |-> obj[i].key]

Values(obj) == [i \in 1..Len(obj) |-> obj[i].value]

\* const agentResults: Record<string, AgentResponse> = {}
NewAgentResults == <<>>

\* throw new Error(`RepoCrawler failed: ${crawlerResult.error}`) and its siblings
StepFailedNoErrorText(stepName, response) == ThrownError(<<stepName, " failed: ">>)

StepFailedWrongStep(stepName, response) ==
    ThrownError(<<"RepoCrawler", " failed: ">> \o ErrorTextOf(response))

StepFailed(stepName, response) ==
    ThrownError(<<stepName, " failed: ">> \o ErrorTextOf(response))

\* the catch block: the failure result
CatchDropsResults(thrown, results) ==
    [success |-> FALSE, error |-> ErrorMessage(thrown), agentResults |-> NewAgentResults]

Catch(thrown, results) ==
    [success |-> FALSE, error |-> ErrorMessage(thrown), agentResults |-> results]

\* the success result
SuccessNoTutorial(teacherResult, results) ==
    [success |-> TRUE, agentResults |-> results]

SuccessFirstData(teacherResult, results) ==
    [success |-> TRUE, tutorial |-> DataOf(results[1].value), agentResults |-> results]

Success(teacherResult, results) ==
    [success |-> TRUE, tutorial |-> DataOf(teacherResult), agentResults |-> results]

\* if (!response.success) throw ...: does the call go on to the next step
GoesOnAlways(response) == TRUE

GoesOn(response) == response.success

CallEvent(agent, args) == [ev |-> "call", agent |-> agent, value |-> [args |-> args]]

ReturnEvent(agent, response) == [ev |-> "return", agent |-> agent, value |-> response]

ThrowEvent(agent, thrown) == [ev |-> "throw", agent |-> agent, value |-> thrown]

\* generateTutorial(repoUrl) up to its first await
GenerateTutorial(url) ==
    /\ pc \in {"idle", "done"}
    /\ pc' = "crawl"
    /\ repoUrl' = url
    /\ agentResults' = NewAgentResults
    /\ crawlerResult' = NoValue
    /\ analyzerResult' = NoValue
    /\ result' = NoValue
    /\ log' = <<CallEvent("repoCrawler", <<url>>)>>
    /\ UNCHANGED <<crawlVars, concVars, agentVars, uiVars>>

\* (a retrying variant of the step: a failed fetch is called again)
CrawlerReturnsRetry(response) ==
    /\ pc = "crawl"
    /\ crawlerResult' = response
    /\ agentResults' = SetKey(agentResults, "repoCrawler", response)
    /\ IF response.success
       THEN /\ pc' = "analyze"
            /\ log' = log \o <<ReturnEvent("repoCrawler", response),
                               CallEvent("codeAnalyzer", <<DataOf(response)>>)>>
       ELSE /\ pc' = "crawl"
            /\ log' = log \o <<ReturnEvent("repoCrawler", response),
                               CallEvent("repoCrawler", <<repoUrl>>)>>
    /\ UNCHANGED <<repoUrl, analyzerResult, result>>
    /\ UNCHANGED <<crawlVars, concVars, agentVars, uiVars>>

\* await fetchRepoData(repoUrl) resolves; on to the await of analyzeRepo
CrawlerReturns(response) ==
    /\ pc = "crawl"
    /\ crawlerResult' = response
    /\ agentResults' = SetKey(agentResults, "repoCrawler", response)
    /\ IF GoesOn(response)
       THEN /\ pc' = "analyze"
            /\ result' = result
            /\ log' = log \o <<ReturnEvent("repoCrawler", response),
                               CallEvent("codeAnalyzer", <<DataOf(response)>>)>>
       ELSE /\ pc' = "done"
            /\ result' = Catch(StepFailed("RepoCrawler", response), agentResults')
            /\ log' = Append(log, ReturnEvent("repoCrawler", response))
    /\ UNCHANGED <<repoUrl, analyzerResult>>
    /\ UNCHANGED <<crawlVars, concVars, agentVars, uiVars>>

\* await fetchRepoData(repoUrl) rejects
CrawlerThrows(thrown) ==
    /\ pc = "crawl"
    /\ pc' = "done"
    /\ result' = Catch(thrown, agentResults)
    /\ log' = Append(log, ThrowEvent("repoCrawler", thrown))
    /\ UNCHANGED <<repoUrl, crawlerResult, analyzerResult, agentResults>>
    /\ UNCHANGED <<crawlVars, concVars, agentVars, uiVars>>

\* await analyzeRepo(crawlerResult.data) resolves; on to the await of the teacher
AnalyzerReturns(response) ==
    /\ pc = "analyze"
    /\ analyzerResult' = response
    /\ agentResults' = SetKey(agentResults, "codeAnalyzer", response)
    /\ IF GoesOn(response)
       THEN /\ pc' = "teach"
            /\ result' = result
            /\ log' = log \o <<ReturnEvent("codeAnalyzer", response),
                               CallEvent("teacher", <<DataOf(crawlerResult), DataOf(response)>>)>>
       ELSE /\ pc' = "done"
            /\ result' = Catch(StepFailed("CodeAnalyzer", response), agentResults')
            /\ log' = Append(log, ReturnEvent("codeAnalyzer", response))
    /\ UNCHANGED <<repoUrl, crawlerResult>>
    /\ UNCHANGED <<crawlVars, concVars, agentVars, uiVars>>

AnalyzerThrows(thrown) ==
    /\ pc = "analyze"
    /\ pc' = "done"
    /\ result' = Catch(thrown, agentResults)
    /\ log' = Append(log, ThrowEvent("codeAnalyzer", thrown))
    /\ UNCHANGED <<repoUrl, crawlerResult, analyzerResult, agentResults>>
    /\ UNCHANGED <<crawlVars, concVars, agentVars, uiVars>>

\* await teacher.generateTutorial(...) resolves; the call returns
TeacherReturns(response) ==
    /\ pc = "teach"
    /\ pc' = "done"
    /\ agentResults' = SetKey(agentResults, "teacher", response)
    /\ result' = IF GoesOn(response)
                 THEN Success(response, agentResults')
                 ELSE Catch(StepFailed("Teacher", response), agentResults')
    /\ log' = Append(log, ReturnEvent("teacher", response))
    /\ UNCHANGED <<repoUrl, crawlerResult, analyzerResult>>
    /\ UNCHANGED <<crawlVars, concVars, agentVars, uiVars>>

TeacherThrows(thrown) ==
    /\ pc = "teach"
    /\ pc' = "done"
    /\ result' = Catch(thrown, agentResults)
    /\ log' = Append(log, ThrowEvent("teacher", thrown))
    /\ UNCHANGED <<repoUrl, crawlerResult, analyzerResult, agentResults>>
    /\ UNCHANGED <<crawlVars, concVars, agentVars, uiVars>>

InitOrchestrator ==
    /\ pc = "idle"
    /\ repoUrl = <<>>
    /\ crawlerResult = NoValue
    /\ analyzerResult = NoValue
    /\ agentResults = NewAgentResults
    /\ result = NoValue
    /\ log = <<>>

Next ==
    \/ \E url \in RepoUrls : GenerateTutorial(url)
    \/ \E r \in Responses(CrawlerData, "RepoCrawler") : CrawlerReturns(r)
    \/ \E t \in ThrownValues : CrawlerThrows(t)
    \/ \E r \in Responses(AnalyzerData, "CodeAnalyzer") : AnalyzerReturns(r)
    \/ \E t \in ThrownValues : AnalyzerThrows(t)
    \/ \E r \in Responses(TeacherData, "Teacher") : TeacherReturns(r)
    \/ \E t \in ThrownValues : TeacherThrows(t)

----------------------------------------------------------------------------
(* RepoCrawlerAgent *)

\* config.mcpEndpoint.url as constructed
DefaultEndpointUrl == <<"http://", "localhost:8000", "/", "repo", "/", "snapshot">>

\* the URLs setMCPEndpoint is given; the last two are not absolute URLs
EndpointUrls ==
    { DefaultEndpointUrl,
      <<"https://", "mcp.example.com", "/", "snapshot">>,
      <<"localhost">>,
      <<>> }

\* new URL(url) throws a TypeError unless url is an absolute URL
IsAbsoluteUrl(url) == Len(url) >= 2 /\ url[1] \in {"http://", "https://"}

\* the TypeError new URL throws (V8's text; other engines word it differently,
\* none with 'Failed to fetch' or 'NetworkError' in it)
InvalidUrlError == ThrownError(<<"Invalid URL">>)

\* URLSearchParams percent-encoding of one atom
EncodeAtom(a) ==
    CASE a = "/" -> "%2F"
      [] a = "https:" -> "https%3A"
      [] OTHER -> a

\* mcpUrl.searchParams.append('url', repoUrl); mcpUrl.toString()
RequestUrl(endpoint, url) ==
    endpoint \o <<"?", "url", "=">> \o [i \in 1..Len(url) |-> EncodeAtom(url[i])]

\* repoUrl.split('/').pop(): the text after the last '/'
LastSegment(s) ==
    LET slashes == {i \in 1..Len(s) : s[i] = "/"}
        from == IF slashes = {} THEN 0
                ELSE CHOOSE i \in slashes : \A j \in slashes : j <= i
    IN  SubSeq(s, from + 1, Len(s))

\* repoUrl.split('/').pop() || 'repository'
MockRepoName(url) ==
    IF LastSegment(url) # <<>> THEN LastSegment(url) ELSE <<"repository">>

\* getMockData(repoUrl).data
MockSnapshot(url) ==
    [ readme |-> <<"# Sample Repository", "\n\n",
                   "This is a mock response from RepoCrawler agent.", "\n\n",
                   "## Features", "\n", "- Feature 1", "\n", "- Feature 2", "\n",
                   "- Feature 3">>,
      fileTree |-> << <<"src", "/">>,
                      <<"src", "/", "index", ".js">>,
                      <<"src", "/", "component", "s", "/">>,
                      <<"src", "/", "component", "s", "/", "App", ".js", "x">>,
                      <<"src", "/", "utils", "/">>,
                      <<"src", "/", "utils", "/", "helpers", ".js">>,
                      <<"package", ".js", "on">>,
                      <<"README", ".md">>,
                      <<".gitignore">> >>,
      keyFiles |-> << [key |-> <<"package", ".js", "on">>,
                       value |-> <<"{", "\"name\": \"">> \o MockRepoName(url)
                                 \o <<"\"", "\"version\": \"1.0.0\"",
                                      "\"dependencies\": {", "\"", "react", "\": \"^18.0.0\"",
                                      "\"", "react", "-dom", "\": \"^18.0.0\"", "}", "}">>],
                      [key |-> <<"src", "/", "index", ".js">>,
                       value |-> <<"console.log(\"Hello World\");">>] >>,
      metadata |-> [ name |-> MockRepoName(url),
                     description |-> <<"A sample repository for demonstration">>,
                     language |-> <<"JavaScript">>,
                     stars |-> 42,
                     forks |-> 7 ] ]

\* getMockData(repoUrl)
GetMockData(url) == OkResponse(MockSnapshot(url), "RepoCrawler")

\* errorMessage of fetchRepoData's catch block
CrawlerErrorMessage(thrown) ==
    IF thrown.isError THEN thrown.message ELSE <<"Unknown error">>

\* errorMessage.includes('Failed to fetch') || errorMessage.includes('NetworkError')
IsEndpointUnavailableNever(message) == FALSE

IsEndpointUnavailable(message) ==
    Includes(message, <<"Failed to fetch">>) \/ Includes(message, <<"NetworkError">>)

\* the catch block of fetchRepoData
CrawlerCatch(thrown, url) ==
    IF IsEndpointUnavailable(CrawlerErrorMessage(thrown))
    THEN GetMockData(url)
    ELSE FailResponse(CrawlerErrorMessage(thrown), "RepoCrawler")

\* throw new Error(`MCP endpoint returned ${response.status}: ${response.statusText}`)
NotOkError(response) ==
    ThrownError(<<"MCP endpoint returned ", ToString(response.status), ": ">>
                \o response.statusText)

\* Response.ok
IsOk(response) == response.status \in 200..299

\* ---- what the network and the endpoint can do ----

\* the TypeError fetch rejects with when the request cannot be made, by engine
FetchRejections ==
    { ThrownError(<<"Failed to fetch">>),
      ThrownError(<<"NetworkError", " when attempting to fetch resource.">>),
      ThrownError(<<"Load failed">>),
      ThrownError(<<"fetch failed">>) }

\* status line of a response; the reason phrase is the server's free text
HttpResponses ==
    { [status |-> 200, statusText |-> <<"OK">>],
      [status |-> 204, statusText |-> <<>>],
      [status |-> 404, statusText |-> <<"Not Found">>],
      [status |-> 500, statusText |-> <<"Internal Server Error">>],
      [status |-> 503, statusText |-> <<"NetworkError">>] }

JsonNull == [jsonNull |-> TRUE]

\* bodies that parse: a snapshot, a snapshot with fields absent, {} and null
JsonBodies ==
    { MockSnapshot(<<"demo">>),
      [ fileTree |-> << <<"package", ".js", "on">>, <<"yarn", ".lock">>,
                        <<"src", "/", "main", ".py">> >>,
        metadata |-> [ name |-> <<"demo">>, description |-> <<"d">>,
                       language |-> <<"TypeScript">>, stars |-> 5, forks |-> 1 ] ],
      [ readme |-> <<"hello">> ],
      JsonNull }

\* the SyntaxError response.json() rejects with on a body that is not JSON;
\* V8 quotes the start of the body in the message
JsonRejections ==
    { ThrownError(<<"Unexpected token '<', \"", "<!DOCTYPE ", "\"... is not valid JSON">>),
      ThrownError(<<"Unexpected token 'F', \"", "Failed to fetch", " repo\" is not valid JSON">>),
      ThrownError(<<"JSON.parse: unexpected character at line 1 column 1 of the JSON data">>) }

FetchEvent(ev, value) == [ev |-> ev, value |-> value]

\* fetchRepoData(repoUrl) up to its first await
FetchRepoData(url) ==
    /\ fpc \in {"idle", "done"}
    /\ fRepoUrl' = url
    /\ IF IsAbsoluteUrl(mcpEndpointUrl)
       THEN /\ fpc' = "fetch"
            /\ fRequestUrl' = RequestUrl(mcpEndpointUrl, url)
            /\ fResult' = NoValue
            /\ fLog' = <<>>
       ELSE /\ fpc' = "done"
            /\ fRequestUrl' = <<>>
            /\ fResult' = CrawlerCatch(InvalidUrlError, url)
            /\ fLog' = <<FetchEvent("urlThrows", InvalidUrlError)>>
    /\ UNCHANGED <<mcpEndpointUrl, orchVars, concVars, agentVars, uiVars>>

\* await fetch(...) rejects
FetchRejects(thrown) ==
    /\ fpc = "fetch"
    /\ fpc' = "done"
    /\ fResult' = CrawlerCatch(thrown, fRepoUrl)
    /\ fLog' = Append(fLog, FetchEvent("fetchRejects", thrown))
    /\ UNCHANGED <<mcpEndpointUrl, fRepoUrl, fRequestUrl, orchVars, concVars, agentVars, uiVars>>

\* await fetch(...) resolves with a response
FetchResponds(response) ==
    /\ fpc = "fetch"
    /\ IF IsOk(response)
       THEN /\ fpc' = "json"
            /\ fResult' = fResult
       ELSE /\ fpc' = "done"
            /\ fResult' = CrawlerCatch(NotOkError(response), fRepoUrl)
    /\ fLog' = Append(fLog, FetchEvent("responds", response))
    /\ UNCHANGED <<mcpEndpointUrl, fRepoUrl, fRequestUrl, orchVars, concVars, agentVars, uiVars>>

\* await response.json() resolves
JsonResolves(data) ==
    /\ fpc = "json"
    /\ fpc' = "done"
    /\ fResult' = OkResponse(data, "RepoCrawler")
    /\ fLog' = Append(fLog, FetchEvent("jsonResolves", data))
    /\ UNCHANGED <<mcpEndpointUrl, fRepoUrl, fRequestUrl, orchVars, concVars, agentVars, uiVars>>

\* await response.json() rejects
JsonRejects(thrown) ==
    /\ fpc = "json"
    /\ fpc' = "done"
    /\ fResult' = CrawlerCatch(thrown, fRepoUrl)
    /\ fLog' = Append(fLog, FetchEvent("jsonRejects", thrown))
    /\ UNCHANGED <<mcpEndpointUrl, fRepoUrl, fRequestUrl, orchVars, concVars, agentVars, uiVars>>

\* setMCPEndpoint(url)
SetMCPEndpoint(url) ==
    /\ mcpEndpointUrl' = url
    /\ UNCHANGED <<fpc, fRepoUrl, fRequestUrl, fResult, fLog, orchVars, concVars, agentVars, uiVars>>

InitCrawler ==
    /\ mcpEndpointUrl = DefaultEndpointUrl
    /\ fpc = "idle"
    /\ fRepoUrl = <<>>
    /\ fRequestUrl = <<>>
    /\ fResult = NoValue
    /\ fLog = <<>>

NextCrawler ==
    \/ \E url \in RepoUrls : FetchRepoData(url)
    \/ \E t \in FetchRejections : FetchRejects(t)
    \/ \E r \in HttpResponses : FetchResponds(r)
    \/ \E d \in JsonBodies : JsonResolves(d)
    \/ \E t \in JsonRejections : JsonRejects(t)
    \/ \E url \in EndpointUrls : SetMCPEndpoint(url)

----------------------------------------------------------------------------
(* String and object helpers of the classifier and the assembler *)

\* the atoms of this model that have an upper-case letter, lower-cased
LowerAtom(a) ==
    CASE a = "App" -> "app"
      [] a = "README" -> "readme"
      [] a = "Foo" -> "foo"
      [] a = "Bar" -> "bar"
      [] a = "Home" -> "home"
      [] a = "GraphQL" -> "graphql"
      [] a = "Pipfile" -> "pipfile"
      [] a = "UI " -> "ui "
      [] a = "Component" -> "component"
      [] a = "Application " -> "application "
      [] a = "Page" -> "page"
      [] a = "Business Services" -> "business services"
      [] a = "Utility Functions" -> "utility functions"
      [] a = "API Layer" -> "api layer"
      [] a = "Custom Hooks" -> "custom hooks"
      [] a = "Data Models" -> "data models"
      [] a = "Controllers" -> "controllers"
      [] a = "State Store" -> "state store"
      [] a = "# Sample Repository" -> "# sample repository"
      [] a = "This is a mock response from RepoCrawler agent." ->
             "this is a mock response from repocrawler agent."
      [] a = "## Features" -> "## features"
      [] a = "- Feature 1" -> "- feature 1"
      [] a = "- Feature 2" -> "- feature 2"
      [] a = "- Feature 3" -> "- feature 3"
      [] a = "console.log(\"Hello World\");" -> "console.log(\"hello world\");"
      [] OTHER -> a

\* s.toLowerCase()
Lower(s) == [i \in 1..Len(s) |-> LowerAtom(s[i])]

\* strs.join(sep)
RECURSIVE Join(_, _)
Join(strs, sep) ==
    IF Len(strs) = 0 THEN <<>>
    ELSE IF Len(strs) = 1 THEN strs[1]
    ELSE strs[1] \o sep \o Join(Tail(strs), sep)

SliceAll(arr, n) == arr

\* arr.slice(0, n)
Slice(arr, n) == SubSeq(arr, 1, IF Len(arr) < n THEN Len(arr) ELSE n)

\* arr.filter(keep), keep a predicate on positions of arr
RECURSIVE FilterIdx(_, _, _)
FilterIdx(arr, keep(_), i) ==
    IF i > Len(arr) THEN <<>>
    ELSE (IF keep(i) THEN <<arr[i]>> ELSE <<>>) \o FilterIdx(arr, keep, i + 1)

Has(obj, field) == field \in DOMAIN obj

\* JSON.stringify(keyFiles || {}): {"key":"value",...}
JsonStringifyKeyFiles(snapshot) ==
    IF ~Has(snapshot, "keyFiles") THEN <<"{", "}">>
    ELSE LET kf == snapshot.keyFiles
             entry(i) == <<"\"">> \o kf[i].key \o <<"\":\"">> \o kf[i].value \o <<"\"">>
         IN  <<"{">> \o Join([i \in 1..Len(kf) |-> entry(i)], <<",">>) \o <<"}">>

----------------------------------------------------------------------------
(* CodeAnalyzerAgent *)

\* fileTree || []
FileTreeOf(snapshot) == IF Has(snapshot, "fileTree") THEN snapshot.fileTree ELSE <<>>

DetectPackageManagerPnpmFirst(snapshot) ==
    IF ~Has(snapshot, "fileTree") THEN <<"unknown">>
    ELSE LET fileTreeStr == Lower(Join(snapshot.fileTree, <<" ">>))
         IN  IF Includes(fileTreeStr, <<"pnpm", "-lock", ".yaml">>) THEN <<"pnpm">>
             ELSE IF Includes(fileTreeStr, <<"package", "-lock", ".js", "on">>) THEN <<"npm">>
             ELSE IF Includes(fileTreeStr, <<"yarn", ".lock">>) THEN <<"yarn">>
             ELSE IF \/ Includes(fileTreeStr, <<"poetry", ".lock">>)
                     \/ Includes(fileTreeStr, <<"pyproject", ".toml">>) THEN <<"poetry">>
             ELSE IF \/ Includes(fileTreeStr, <<"requirements", ".txt">>)
                     \/ Includes(fileTreeStr, <<"pipfile">>) THEN <<"pip">>
             ELSE <<"unknown">>

\* detectPackageManager(fileTree, keyFiles)
DetectPackageManager(snapshot) ==
    IF ~Has(snapshot, "fileTree") THEN <<"unknown">>
    ELSE LET fileTreeStr == Lower(Join(snapshot.fileTree, <<" ">>))
         IN  IF Includes(fileTreeStr, <<"package", "-lock", ".js", "on">>) THEN <<"npm">>
             ELSE IF Includes(fileTreeStr, <<"yarn", ".lock">>) THEN <<"yarn">>
             ELSE IF Includes(fileTreeStr, <<"pnpm", "-lock", ".yaml">>) THEN <<"pnpm">>
             ELSE IF \/ Includes(fileTreeStr, <<"poetry", ".lock">>)
                     \/ Includes(fileTreeStr, <<"pyproject", ".toml">>) THEN <<"poetry">>
             ELSE IF \/ Includes(fileTreeStr, <<"requirements", ".txt">>)
                     \/ Includes(fileTreeStr, <<"pipfile">>) THEN <<"pip">>
             ELSE <<"unknown">>

InferDevCommandsNpmDefault(packageManager) ==
    IF packageManager = <<"yarn">>
    THEN [install |-> <<"yarn install">>, run |-> <<"yarn dev">>, test |-> <<"yarn test">>]
    ELSE [install |-> <<"npm install">>, run |-> <<"npm run dev">>, test |-> <<"npm test">>]

\* inferDevCommands(packageManager, keyFiles)
InferDevCommands(packageManager) ==
    CASE packageManager = <<"npm">> ->
            [install |-> <<"npm install">>, run |-> <<"npm run dev">>, test |-> <<"npm test">>]
      [] packageManager = <<"yarn">> ->
            [install |-> <<"yarn install">>, run |-> <<"yarn dev">>, test |-> <<"yarn test">>]
      [] packageManager = <<"pnpm">> ->
            [install |-> <<"pnpm install">>, run |-> <<"pnpm dev">>, test |-> <<"pnpm test">>]
      [] packageManager = <<"pip">> ->
            [install |-> <<"pip install", " -r requirements.txt">>,
             run |-> <<"python main.py">>, test |-> <<"pytest">>]
      [] packageManager = <<"poetry">> ->
            [install |-> <<"poetry install">>, run |-> <<"poetry run python main.py">>,
             test |-> <<"poetry run pytest">>]
      [] OTHER ->
            [install |-> <<"unknown">>, run |-> <<"unknown">>, test |-> <<"unknown">>]

EntryPatterns ==
    << <<"index", ".js">>, <<"index", ".ts">>, <<"index", ".ts", "x">>, <<"index", ".js", "x">>,
       <<"main", ".js">>, <<"main", ".ts">>, <<"main", ".ts", "x">>, <<"main", ".py">>,
       <<"app", ".js">>, <<"app", ".ts">>, <<"app", ".ts", "x">>, <<"app", ".py">>,
       <<"server", ".js">>, <<"server", ".ts">>,
       <<"src", "/", "index">>, <<"src", "/", "main">>, <<"src", "/", "app">> >>

\* the inner loop of findEntryPoints: some pattern occurs in the file
MatchesEntryPattern(file) ==
    \E k \in 1..Len(EntryPatterns) : Includes(Lower(file), Lower(EntryPatterns[k]))

FindEntryPointsUncapped(snapshot) ==
    IF ~Has(snapshot, "fileTree") THEN <<>>
    ELSE LET fileTree == snapshot.fileTree
             keep(i) == MatchesEntryPattern(fileTree[i])
         IN  FilterIdx(fileTree, keep, 1)

\* findEntryPoints(fileTree, keyFiles)
FindEntryPoints(snapshot) ==
    IF ~Has(snapshot, "fileTree") THEN <<>>
    ELSE LET fileTree == snapshot.fileTree
             keep(i) == MatchesEntryPattern(fileTree[i])
         IN  Slice(FilterIdx(fileTree, keep, 1), 5)

\* the concepts in the order detectMainConcepts tests them, each with its triggers
ConceptTable ==
    << [concept |-> <<"SSR">>, triggers |-> {<<"ssr">>, <<"server-side">>}],
       [concept |-> <<"REST API">>, triggers |-> {<<"api">>, <<"endpoint">>}],
       [concept |-> <<"GraphQL">>, triggers |-> {<<"graphql">>}],
       [concept |-> <<"WebSocket">>, triggers |-> {<<"websocket">>}],
       [concept |-> <<"State Management">>,
        triggers |-> {<<"redux">>, <<"zustand">>, <<"state">>}],
       [concept |-> <<"Component-based UI">>, triggers |-> {<<"component">>}],
       [concept |-> <<"Routing">>, triggers |-> {<<"routing">>, <<"router">>}],
       [concept |-> <<"Middleware">>, triggers |-> {<<"middleware">>}],
       [concept |-> <<"Authentication">>, triggers |-> {<<"authentication">>, <<"auth">>}],
       [concept |-> <<"Database">>, triggers |-> {<<"database">>, <<"db">>}] >>

\* allContent of detectMainConcepts
AllContent(snapshot) ==
    Lower(Join(FileTreeOf(snapshot), <<" ">>)
          \o <<" ">> \o JsonStringifyKeyFiles(snapshot)
          \o <<" ">> \o (IF Has(snapshot, "readme") THEN snapshot.readme ELSE <<>>))

\* detectMainConcepts(fileTree, keyFiles, readme)
DetectMainConcepts(snapshot) ==
    LET allContent == AllContent(snapshot)
        keep(i) == \E t \in ConceptTable[i].triggers : Includes(allContent, t)
        found == FilterIdx(ConceptTable, keep, 1)
    IN  Slice([i \in 1..Len(found) |-> found[i].concept], 8)

\* the patterns of buildModules, in declaration order
ModulePatterns ==
    << [pattern |-> <<"component", "s">>, name |-> <<"UI ", "Component", "s">>,
        purpose |-> <<"Reusable UI building blocks">>],
       [pattern |-> <<"services">>, name |-> <<"Business Services">>,
        purpose |-> <<"Core business logic and external integrations">>],
       [pattern |-> <<"utils">>, name |-> <<"Utility Functions">>,
        purpose |-> <<"Helper functions and utilities">>],
       [pattern |-> <<"api">>, name |-> <<"API Layer">>,
        purpose |-> <<"Backend API endpoints and routes">>],
       [pattern |-> <<"page", "s">>, name |-> <<"Application ", "Page", "s">>,
        purpose |-> <<"Top-level page components and views">>],
       [pattern |-> <<"hooks">>, name |-> <<"Custom Hooks">>,
        purpose |-> <<"Reusable React hooks for state and side effects">>],
       [pattern |-> <<"models">>, name |-> <<"Data Models">>,
        purpose |-> <<"Data structures and schemas">>],
       [pattern |-> <<"controllers">>, name |-> <<"Controllers">>,
        purpose |-> <<"Request handlers and business logic">>],
       [pattern |-> <<"store">>, name |-> <<"State Store">>,
        purpose |-> <<"Global state management">>] >>

\* filename.replace(/\.(ts|tsx|js|jsx|py)$/, '')
StripExtension(filename) ==
    LET n == Len(filename)
    IN  IF n >= 2 /\ filename[n] = "x" /\ filename[n - 1] \in {".ts", ".js"}
        THEN SubSeq(filename, 1, n - 2)
        ELSE IF n >= 1 /\ filename[n] \in {".ts", ".js", ".py"}
        THEN SubSeq(filename, 1, n - 1)
        ELSE filename

ExtractKeySymbolsWithExtension(files) ==
    LET first == Slice(files, 3)
    IN  [i \in 1..Len(first) |-> LastSegment(first[i])]

\* extractKeySymbols(files, keyFiles)
ExtractKeySymbols(files) ==
    LET first == Slice(files, 3)
        filename(i) == StripExtension(LastSegment(first[i]))
        keep(i) == filename(i) # <<>>
        names == [i \in 1..Len(first) |-> filename(i)]
    IN  Slice(FilterIdx(names, keep, 1), 5)

\* the files of one pattern of buildModules
ModuleFiles(fileTree, pattern) ==
    LET keep(i) ==
            \/ Includes(Lower(fileTree[i]), <<"/">> \o pattern \o <<"/">>)
            \/ Includes(Lower(fileTree[i]), <<"\\">> \o pattern \o <<"\\">>)
    IN  FilterIdx(fileTree, keep, 1)

BuildModulesWithoutFiles(snapshot) ==
    IF ~Has(snapshot, "fileTree") THEN <<>>
    ELSE LET fileTree == snapshot.fileTree
             keep(i) == ModuleFiles(fileTree, ModulePatterns[i].pattern) # <<>>
             found == FilterIdx(ModulePatterns, keep, 1)
         IN  [i \in 1..Len(found) |->
                [ name |-> found[i].name,
                  purpose |-> found[i].purpose,
                  key_symbols |-> ExtractKeySymbols(ModuleFiles(fileTree, found[i].pattern)) ]]

\* buildModules(fileTree, keyFiles)
BuildModules(snapshot) ==
    IF ~Has(snapshot, "fileTree") THEN <<>>
    ELSE LET fileTree == snapshot.fileTree
             keep(i) == ModuleFiles(fileTree, ModulePatterns[i].pattern) # <<>>
             found == FilterIdx(ModulePatterns, keep, 1)
         IN  [i \in 1..Len(found) |->
                [ name |-> found[i].name,
                  files |-> Slice(ModuleFiles(fileTree, found[i].pattern), 5),
                  purpose |-> found[i].purpose,
                  key_symbols |-> ExtractKeySymbols(ModuleFiles(fileTree, found[i].pattern)) ]]

\* modules.find(m => m.name.toLowerCase().includes(word)): its position, 0 when none
FindModule(modules, word) ==
    LET hits == {i \in 1..Len(modules) : Includes(Lower(modules[i].name), word)}
    IN  IF hits = {} THEN 0 ELSE CHOOSE i \in hits : \A j \in hits : i <= j

InferDataFlowEdgesOneModule(modules, entry_points) ==
    IF ~(Len(entry_points) > 0 /\ Len(modules) > 0) THEN <<>>
    ELSE LET p == FindModule(modules, <<"page">>)
             c == FindModule(modules, <<"component">>)
         IN  (IF p # 0 /\ Len(modules[p].files) > 0
              THEN << [from |-> entry_points[1], to |-> modules[p].files[1],
                       why |-> <<"Entry point initializes and renders pages">>] >>
              ELSE <<>>)
             \o
             (IF p # 0 /\ c # 0 /\ Len(modules[c].files) > 0
              THEN << [from |-> modules[p].files[1], to |-> modules[c].files[1],
                       why |-> <<"Pages compose and render UI components">>] >>
              ELSE <<>>)

\* inferDataFlowEdges(modules, entry_points)
InferDataFlowEdges(modules, entry_points) ==
    IF ~(Len(entry_points) > 0 /\ Len(modules) > 1) THEN <<>>
    ELSE LET p == FindModule(modules, <<"page">>)
             c == FindModule(modules, <<"component">>)
         IN  (IF p # 0 /\ Len(modules[p].files) > 0
              THEN << [from |-> entry_points[1], to |-> modules[p].files[1],
                       why |-> <<"Entry point initializes and renders pages">>] >>
              ELSE <<>>)
             \o
             (IF p # 0 /\ c # 0 /\ Len(modules[c].files) > 0
              THEN << [from |-> modules[p].files[1], to |-> modules[c].files[1],
                       why |-> <<"Pages compose and render UI components">>] >>
              ELSE <<>>)

\* pmExplanations
PmExplanations ==
    << [term |-> <<"npm">>,
        definition |-> <<"Node Package Manager - default package manager for Node.js projects">>],
       [term |-> <<"yarn">>,
        definition |-> <<"Fast, reliable package manager alternative to npm">>],
       [term |-> <<"pnpm">>,
        definition |-> <<"Performant npm - disk space efficient package manager">>],
       [term |-> <<"pip">>,
        definition |-> <<"Python package installer for managing Python libraries">>],
       [term |-> <<"poetry">>,
        definition |-> <<"Python dependency management and packaging tool">>] >>

\* conceptDefs
ConceptDefs ==
    << [term |-> <<"SSR">>,
        definition |-> <<"Server-Side Rendering - rendering pages on the server before sending to client">>],
       [term |-> <<"REST API">>,
        definition |-> <<"Representational State Transfer - architectural style for web services">>],
       [term |-> <<"GraphQL">>,
        definition |-> <<"Query language for APIs providing efficient data fetching">>],
       [term |-> <<"State Management">>,
        definition |-> <<"Managing and synchronizing application state across components">>],
       [term |-> <<"Component-based UI">>,
        definition |-> <<"Building UIs from reusable, self-contained components">>],
       [term |-> <<"Authentication">>,
        definition |-> <<"Verifying user identity and managing access control">>],
       [term |-> <<"Middleware">>,
        definition |-> <<"Software layer that processes requests between client and server">>] >>

\* table[term]: the entries of the table for the term (none or one)
Lookup(table, term) ==
    LET keep(i) == table[i].term = term
    IN  FilterIdx(table, keep, 1)

\* concepts.forEach(...) of generateTermExplanations
RECURSIVE ConceptTerms(_)
ConceptTerms(concepts) ==
    IF Len(concepts) = 0 THEN <<>>
    ELSE Lookup(ConceptDefs, concepts[1]) \o ConceptTerms(Tail(concepts))

GenerateTermExplanationsEveryConcept(packageManager, concepts) ==
    (IF packageManager # <<"unknown">> THEN Lookup(PmExplanations, packageManager) ELSE <<>>)
    \o [i \in 1..Len(concepts) |-> [term |-> concepts[i], definition |-> <<"undefined">>]]

\* generateTermExplanations(packageManager, concepts)
GenerateTermExplanations(packageManager, concepts) ==
    (IF packageManager # <<"unknown">> THEN Lookup(PmExplanations, packageManager) ELSE <<>>)
    \o ConceptTerms(concepts)

\* performAnalysis(repoSnapshot)
PerformAnalysis(snapshot) ==
    LET package_manager == DetectPackageManager(snapshot)
        entry_points == FindEntryPoints(snapshot)
        main_concepts == DetectMainConcepts(snapshot)
        modules == BuildModules(snapshot)
    IN  [ repo_name |-> IF /\ Has(snapshot, "metadata")
                           /\ Has(snapshot.metadata, "name")
                           /\ snapshot.metadata.name # <<>>
                        THEN snapshot.metadata.name
                        ELSE <<"unknown", "/", "repo">>,
          package_manager |-> package_manager,
          dev_commands |-> InferDevCommands(package_manager),
          entry_points |-> entry_points,
          main_concepts |-> main_concepts,
          modules |-> modules,
          data_flow_edges |-> InferDataFlowEdges(modules, entry_points),
          explain_terms |-> GenerateTermExplanations(package_manager, main_concepts),
          ground_truth_paths |-> FileTreeOf(snapshot) ]

\* const { readme, ... } = repoSnapshot throws a TypeError on null and undefined
CannotDestructure(value) == value \in {JsonNull, Undefined}

DestructureError(property, parameter, value) ==
    ThrownError(<<"Cannot destructure property '", property, "' of '", parameter,
                  "' as it is ", IF value = JsonNull THEN "null" ELSE "undefined", ".">>)

AnalyzeRepoNeedsFileTree(snapshot) ==
    IF CannotDestructure(snapshot) \/ ~Has(snapshot, "fileTree")
    THEN FailResponse(<<"fileTree is required">>, "CodeAnalyzer")
    ELSE OkResponse(PerformAnalysis(snapshot), "CodeAnalyzer")

\* analyzeRepo(repoSnapshot)
AnalyzeRepo(snapshot) ==
    IF CannotDestructure(snapshot)
    THEN FailResponse(ErrorMessage(DestructureError("readme", "repoSnapshot", snapshot)),
                      "CodeAnalyzer")
    ELSE OkResponse(PerformAnalysis(snapshot), "CodeAnalyzer")

----------------------------------------------------------------------------
(* CodeAnalyzerAgent, the older class of the file (tech_stack, core_modules, *)
(* important_files, summary)                                                *)

\* the technologies in the order detectTechStack tests them, each with its triggers
TechTable ==
    << [tech |-> <<"React">>, triggers |-> {<<"react">>, <<".js", "x">>, <<".ts", "x">>}],
       [tech |-> <<"Vue.js">>, triggers |-> {<<"vue">>}],
       [tech |-> <<"Angular">>, triggers |-> {<<"angular">>}],
       [tech |-> <<"Svelte">>, triggers |-> {<<"svelte">>}],
       [tech |-> <<"Next.js">>, triggers |-> {<<"next">>}],
       [tech |-> <<"Express.js">>, triggers |-> {<<"express">>}],
       [tech |-> <<"Django">>, triggers |-> {<<"django">>}],
       [tech |-> <<"Flask">>, triggers |-> {<<"flask">>}],
       [tech |-> <<"Ruby on Rails">>, triggers |-> {<<"rails">>}],
       [tech |-> <<"Spring Boot">>, triggers |-> {<<"spring">>}],
       [tech |-> <<"TypeScript">>, triggers |-> {<<".ts">>, <<"typescript">>}],
       [tech |-> <<"JavaScript">>, triggers |-> {<<".js">>, <<"javascript">>}],
       [tech |-> <<"Python">>, triggers |-> {<<".py">>, <<"python">>}],
       [tech |-> <<"Java">>, triggers |-> {<<".java">>}],
       [tech |-> <<"Go">>, triggers |-> {<<".go">>}],
       [tech |-> <<"Ruby">>, triggers |-> {<<".rb">>, <<"ruby">>}],
       [tech |-> <<"Webpack">>, triggers |-> {<<"webpack">>}],
       [tech |-> <<"Vite">>, triggers |-> {<<"vite">>}],
       [tech |-> <<"Rollup">>, triggers |-> {<<"rollup">>}],
       [tech |-> <<"PostgreSQL">>, triggers |-> {<<"postgres">>, <<"postgres", "ql">>}],
       [tech |-> <<"MongoDB">>, triggers |-> {<<"mongo">>}],
       [tech |-> <<"MySQL">>, triggers |-> {<<"mysql">>}],
       [tech |-> <<"Redis">>, triggers |-> {<<"redis">>}],
       [tech |-> <<"Jest">>, triggers |-> {<<"jest">>}],
       [tech |-> <<"Pytest">>, triggers |-> {<<"pytest">>}],
       [tech |-> <<"Mocha">>, triggers |-> {<<"mocha">>}] >>

\* allContent of detectTechStack
TechContent(snapshot) ==
    LET fileTreeStr == IF Has(snapshot, "fileTree")
                       THEN Lower(Join(snapshot.fileTree, <<" ">>)) ELSE <<>>
        keyFilesStr == Lower(JsonStringifyKeyFiles(snapshot))
        readmeStr == IF Has(snapshot, "readme") THEN Lower(snapshot.readme) ELSE <<>>
    IN  fileTreeStr \o <<" ">> \o keyFilesStr \o <<" ">> \o readmeStr

\* detectTechStack(fileTree, keyFiles, readme)
DetectTechStack(snapshot) ==
    LET allContent == TechContent(snapshot)
        keep(i) == \E t \in TechTable[i].triggers : Includes(allContent, t)
        found == FilterIdx(TechTable, keep, 1)
    IN  [i \in 1..Len(found) |-> found[i].tech]

\* modulePatterns of identifyCoreModules, in declaration order
CoreModulePatterns ==
    << [pattern |-> <<"src", "/", "component", "s">>, purpose |-> <<"UI Components">>],
       [pattern |-> <<"component", "s">>, purpose |-> <<"UI Components">>],
       [pattern |-> <<"src", "/", "services">>, purpose |-> <<"Business Logic Services">>],
       [pattern |-> <<"services">>, purpose |-> <<"Business Logic Services">>],
       [pattern |-> <<"src", "/", "utils">>, purpose |-> <<"Utility Functions">>],
       [pattern |-> <<"utils">>, purpose |-> <<"Utility Functions">>],
       [pattern |-> <<"src", "/", "api">>, purpose |-> <<"API Integration">>],
       [pattern |-> <<"api">>, purpose |-> <<"API Layer">>],
       [pattern |-> <<"src", "/", "models">>, purpose |-> <<"Data Models">>],
       [pattern |-> <<"models">>, purpose |-> <<"Data Models">>],
       [pattern |-> <<"src", "/", "controllers">>, purpose |-> <<"Request Controllers">>],
       [pattern |-> <<"controllers">>, purpose |-> <<"Request Controllers">>],
       [pattern |-> <<"src", "/", "views">>, purpose |-> <<"View Templates">>],
       [pattern |-> <<"views">>, purpose |-> <<"View Templates">>],
       [pattern |-> <<"src", "/", "store">>, purpose |-> <<"State Management">>],
       [pattern |-> <<"store">>, purpose |-> <<"State Management">>],
       [pattern |-> <<"src", "/", "hooks">>, purpose |-> <<"Custom React Hooks">>],
       [pattern |-> <<"hooks">>, purpose |-> <<"Custom Hooks">>],
       [pattern |-> <<"src", "/", "page", "s">>, purpose |-> <<"Application Pages">>],
       [pattern |-> <<"page", "s">>, purpose |-> <<"Application Pages">>],
       [pattern |-> <<"tests">>, purpose |-> <<"Test Suite">>],
       [pattern |-> <<"test">>, purpose |-> <<"Test Suite">>] >>

\* identifyCoreModules(fileTree, keyFiles)
IdentifyCoreModules(snapshot) ==
    IF ~Has(snapshot, "fileTree") THEN <<>>
    ELSE LET fileTree == snapshot.fileTree
             keep(i) == \E k \in 1..Len(fileTree) :
                            Includes(fileTree[k], CoreModulePatterns[i].pattern)
             found == FilterIdx(CoreModulePatterns, keep, 1)
         IN  [i \in 1..Len(found) |-> [name |-> found[i].pattern, purpose |-> found[i].purpose]]

\* the atoms of this model that begin with a dot
DotAtoms == {".js", ".ts", ".py", ".md", ".lock", ".txt", ".toml", ".yaml", ".gitignore"}

\* importantPatterns of findImportantFiles, in declaration order, lower-cased; a
\* pattern that ends with a dot is followed by any atom that begins with one
ImportantPatterns ==
    << [patterns |-> {<<"package", ".js", "on">>},
        description |-> <<"NPM package configuration and dependencies">>],
       [patterns |-> {<<"requirements", ".txt">>}, description |-> <<"Python dependencies">>],
       [patterns |-> {<<"dockerfile">>}, description |-> <<"Docker container configuration">>],
       [patterns |-> {<<"docker-compose", ".yml">>},
        description |-> <<"Docker compose orchestration">>],
       [patterns |-> {<<".env">>}, description |-> <<"Environment variables">>],
       [patterns |-> {<<"config">>}, description |-> <<"Configuration files">>],
       [patterns |-> {<<"tsconfig", ".js", "on">>}, description |-> <<"TypeScript configuration">>],
       [patterns |-> {<<"webpack", ".config">>},
        description |-> <<"Webpack bundler configuration">>],
       [patterns |-> {<<"vite", ".config">>}, description |-> <<"Vite build configuration">>],
       [patterns |-> {<<"readme", ".md">>}, description |-> <<"Project documentation">>],
       [patterns |-> {<<"index", ".html">>}, description |-> <<"Main HTML entry point">>],
       [patterns |-> {<<"main", d>> : d \in DotAtoms},
        description |-> <<"Application entry point">>],
       [patterns |-> {<<"app", d>> : d \in DotAtoms},
        description |-> <<"Main application file">>],
       [patterns |-> {<<"server", d>> : d \in DotAtoms},
        description |-> <<"Server entry point">>] >>

\* the inner loop of findImportantFiles: the first pattern found in the file, 0 when none
FirstImportantPattern(file) ==
    LET hits == {i \in 1..Len(ImportantPatterns) :
                    \E p \in ImportantPatterns[i].patterns : Includes(Lower(file), p)}
    IN  IF hits = {} THEN 0 ELSE CHOOSE i \in hits : \A j \in hits : i <= j

\* findImportantFiles(fileTree, keyFiles)
FindImportantFiles(snapshot) ==
    IF ~Has(snapshot, "fileTree") THEN <<>>
    ELSE LET fileTree == snapshot.fileTree
             keep(i) == FirstImportantPattern(fileTree[i]) # 0
             found == FilterIdx(fileTree, keep, 1)
         IN  Slice([i \in 1..Len(found) |->
                      [file |-> found[i],
                       description |->
                           ImportantPatterns[FirstImportantPattern(found[i])].description]],
                   10)

\* `${metadata[field]}`
MetadataText(metadata, field) ==
    IF Has(metadata, field) THEN metadata[field] ELSE <<"undefined">>

GenerateSummaryNoFallback(snapshot, tech_stack, core_modules) ==
    IF Has(snapshot, "metadata") THEN <<"A ">> \o MetadataText(snapshot.metadata, "language")
                                      \o <<" project. ">>
    ELSE <<>>

\* generateSummary(metadata, tech_stack, core_modules)
GenerateSummary(snapshot, tech_stack, core_modules) ==
    LET metadata == snapshot.metadata
        truthy(field) == Has(metadata, field) /\ metadata[field] # <<>>
        about ==
            IF Has(snapshot, "metadata")
            THEN MetadataText(metadata, "name") \o <<" is a ">>
                 \o (IF truthy("language") THEN metadata.language ELSE <<"software">>)
                 \o <<" project">>
                 \o (IF truthy("description") THEN <<": ">> \o metadata.description ELSE <<>>)
                 \o <<". ">>
            ELSE <<>>
        uses ==
            IF Len(tech_stack) > 0
            THEN <<"The project uses ">> \o Join(Slice(tech_stack, 5), <<", ">>) \o <<". ">>
            ELSE <<>>
        includes ==
            IF Len(core_modules) > 0
            THEN <<"Key modules include ">>
                 \o Join([i \in 1..Len(Slice(core_modules, 3)) |-> core_modules[i].name], <<", ">>)
                 \o <<". ">>
            ELSE <<>>
        summary == about \o uses \o includes
    IN  IF summary # <<>> THEN summary ELSE <<"Repository analysis completed.">>

\* performAnalysis(repoSnapshot) of the older class
PerformAnalysisOlder(snapshot) ==
    LET tech_stack == DetectTechStack(snapshot)
        core_modules == IdentifyCoreModules(snapshot)
    IN  [ tech_stack |-> tech_stack,
          core_modules |-> core_modules,
          important_files |-> FindImportantFiles(snapshot),
          summary |-> GenerateSummary(snapshot, tech_stack, core_modules) ]

\* analyzeRepo(repoSnapshot) of the older class
AnalyzeRepoOlder(snapshot) ==
    IF CannotDestructure(snapshot)
    THEN FailResponse(ErrorMessage(DestructureError("readme", "repoSnapshot", snapshot)),
                      "CodeAnalyzer")
    ELSE OkResponse(PerformAnalysisOlder(snapshot), "CodeAnalyzer")

----------------------------------------------------------------------------
(* TeacherAgent *)

AdvancedConcepts == {<<"GraphQL">>, <<"WebSocket">>, <<"Middleware">>, <<"SSR">>}

\* modules?.length, 0 when modules is absent
ModuleCount(analysis) == IF Has(analysis, "modules") THEN Len(analysis.modules) ELSE 0

\* determineDifficulty(main_concepts, modules)
DetermineDifficulty(analysis) ==
    IF ~Has(analysis, "main_concepts") THEN <<"beginner">>
    ELSE LET hasAdvanced ==
                 \E i \in 1..Len(analysis.main_concepts) :
                     analysis.main_concepts[i] \in AdvancedConcepts
         IN  IF hasAdvanced \/ ModuleCount(analysis) > 10 THEN <<"advanced">>
             ELSE IF ModuleCount(analysis) > 5 THEN <<"intermediate">>
             ELSE <<"beginner">>

EstimateDurationFromSix(moduleCount) ==
    IF moduleCount > 5 THEN <<"4-6 hours">> ELSE <<"1-2 hours">>

\* estimateDuration(moduleCount)
EstimateDuration(moduleCount) ==
    IF moduleCount > 10 THEN <<"4-6 hours">>
    ELSE IF moduleCount > 5 THEN <<"2-3 hours">>
    ELSE <<"1-2 hours">>

\* arr.includes(x)
Contains(arr, x) == \E i \in 1..Len(arr) : arr[i] = x

\* generatePrerequisites(main_concepts, packageManager)
GeneratePrerequisites(analysis) ==
    LET base == << <<"Basic programming knowledge">>, <<"Git fundamentals">> >>
        pm == IF Has(analysis, "package_manager") THEN analysis.package_manager ELSE <<>>
    IN  IF ~Has(analysis, "main_concepts") THEN base
        ELSE LET mc == analysis.main_concepts
             IN  base
                 \o (IF pm \in {<<"npm">>, <<"yarn">>, <<"pnpm">>}
                     THEN << <<"JavaScript/Node.js basics">> >> ELSE <<>>)
                 \o (IF pm \in {<<"pip">>, <<"poetry">>}
                     THEN << <<"Python basics">> >> ELSE <<>>)
                 \o (IF Contains(mc, <<"Component-based UI">>)
                     THEN << <<"Understanding of component architecture">> >> ELSE <<>>)
                 \o (IF Contains(mc, <<"REST API">>) \/ Contains(mc, <<"GraphQL">>)
                     THEN << <<"API concepts">> >> ELSE <<>>)
                 \o (IF Contains(mc, <<"State Management">>)
                     THEN << <<"State management patterns (helpful)">> >> ELSE <<>>)

\* dev_commands?.[field] || 'unknown'
DevCommand(analysis, field) ==
    IF /\ Has(analysis, "dev_commands")
       /\ Has(analysis.dev_commands, field)
       /\ analysis.dev_commands[field] # <<>>
    THEN analysis.dev_commands[field]
    ELSE <<"unknown">>

UniqueKeepsAll(arr) == arr

\* options.filter((v, i, a) => a.indexOf(v) === i)
Unique(arr) ==
    LET keep(i) == \A j \in 1..(i - 1) : arr[j] # arr[i]
    IN  FilterIdx(arr, keep, 1)

\* generateInteractiveLearningPath(main_concepts, modules, entry_points, dev_commands, pm)
GenerateInteractiveLearningPath(analysis) ==
    LET installCmd == DevCommand(analysis, "install")
        runCmd == DevCommand(analysis, "run")
        entryFile ==
            IF Has(analysis, "entry_points") /\ Len(analysis.entry_points) > 0
            THEN analysis.entry_points[1]
            ELSE <<"the entry point file">>
        hasModule == Has(analysis, "modules") /\ Len(analysis.modules) > 0
        firstModule == analysis.modules[1]
        \* `${firstModule.name}`
        firstModuleName ==
            IF Has(firstModule, "name") THEN firstModule.name ELSE <<"undefined">>
    IN  << [ stage |-> <<"Setup & Run">>,
             goal |-> <<"Get the project running locally">>,
             concepts |-> << <<"installation">>, <<"dependency management">>,
                             <<"environment setup">> >>,
             steps |-> << <<"Clone the repository to your local machine">>,
                          <<"Read the README.md for setup instructions">>,
                          <<"Install dependencies: ">> \o installCmd,
                          <<"Run the development server: ">> \o runCmd >>,
             checkpoint |-> <<"You can successfully run the project and see the output in your browser or terminal">>,
             quiz |-> << [ question |-> <<"Which command installs dependencies in this project?">>,
                           options |-> Unique(<< installCmd, <<"pip install">>,
                                                 <<"npm install">>, <<"yarn install">> >>),
                           answer |-> installCmd ] >> ],
           [ stage |-> <<"Architecture & Core Logic">>,
             goal |-> <<"Understand how main components interact">>,
             concepts |-> IF Has(analysis, "main_concepts")
                          THEN Slice(analysis.main_concepts, 3)
                          ELSE << <<"code architecture">>, <<"data flow">> >>,
             steps |-> << <<"Open ">> \o entryFile \o <<" to understand the app initialization">>,
                          <<"Trace the main data flow through the application">>,
                          <<"Map out how different modules communicate">>,
                          <<"Document the architecture in a simple diagram">> >>,
             checkpoint |-> <<"You can explain the project architecture and main data flow">>,
             mini_challenge |-> <<"Add a console.log or print statement in a key function and verify it executes when you interact with the app.">> ],
           [ stage |-> <<"Feature Exploration">>,
             goal |-> <<"Experiment with modifying a core feature">>,
             concepts |-> << <<"code modification">>, <<"testing changes">>, <<"debugging">> >>,
             steps |-> << IF hasModule
                          THEN <<"Open the ">> \o firstModuleName \o <<" module">>
                          ELSE <<"Choose a main component to modify">>,
                          IF hasModule
                          THEN <<"Explore files: ">> \o Join(Slice(firstModule.files, 2), <<", ">>)
                          ELSE <<"Pick a file to modify">>,
                          <<"Make a small change (e.g., update text, change a color, modify logic)">>,
                          <<"Run ">> \o runCmd \o <<" and verify your change appears">> >>,
             checkpoint |-> <<"You successfully modified a feature and confirmed the result">>,
             mini_challenge |-> <<"Add a new button or function that logs user interaction to the console.">> ],
           [ stage |-> <<"Build Your Own">>,
             goal |-> <<"Create a small new feature from scratch">>,
             concepts |-> << <<"feature implementation">>, <<"code organization">>,
                             <<"best practices">> >>,
             steps |-> << <<"Plan a small addition (like a new component, function, or route)">>,
                          <<"Follow the existing code patterns and conventions">>,
                          <<"Implement your feature step by step">>,
                          <<"Test it thoroughly and document what you built">> >>,
             checkpoint |-> <<"You build a working mini-feature using what you learned">>,
             final_challenge |-> <<"Build a feature that interacts with existing code (e.g., a new UI element that uses existing data or a utility function).">> ] >>

\* repo_name, when it is present and not empty
HasRepoName(analysis) == Has(analysis, "repo_name") /\ analysis.repo_name # <<>>

\* metadata?.[field], when it is present and not empty
HasMetadata(repoData, field) ==
    /\ Has(repoData, "metadata")
    /\ Has(repoData.metadata, field)
    /\ repoData.metadata[field] # <<>>

\* the learningJourney object of createTutorial
LearningJourney(repoData, analysis) ==
    [ project_title |->
          IF HasRepoName(analysis) THEN analysis.repo_name
          ELSE IF HasMetadata(repoData, "name") THEN repoData.metadata.name
          ELSE <<"Repository Learning Journey">>,
      overview |->
          <<"Master ">>
          \o (IF HasRepoName(analysis) THEN analysis.repo_name ELSE <<"this project">>)
          \o <<" through hands-on learning. ">>
          \o (IF HasMetadata(repoData, "description") THEN repoData.metadata.description
              ELSE <<"Understand the architecture, run it locally, and build your own features.">>),
      difficulty_level |-> DetermineDifficulty(analysis),
      estimated_duration |-> EstimateDuration(ModuleCount(analysis)),
      prerequisites |-> GeneratePrerequisites(analysis),
      learning_objectives |->
          << <<"Understand how the project works">>,
             <<"Run it locally and explore the codebase">>,
             <<"Modify key components and features">>,
             <<"Implement a small new feature independently">> >>,
      learning_path |-> GenerateInteractiveLearningPath(analysis),
      final_project |->
          [ goal |-> <<"Apply all learned concepts to extend the app meaningfully">>,
            description |-> <<"Add a new feature that integrates with the existing codebase (e.g., new UI component, API endpoint, or utility function).">>,
            expected_learning |->
                << <<"Full understanding of the repository structure">>,
                   <<"Confidence modifying and extending open-source code">>,
                   <<"Ability to read, trace, and refactor complex codebases">> >> ] ]

\* JSON.stringify(learningJourney, null, 2): the text whose parse is the object
JsonText(object) == [json |-> object]

CreateTutorialPathByFields(repoData, analysis) ==
    JsonText([LearningJourney(repoData, analysis) EXCEPT
                 !.learning_path = IF Has(analysis, "modules") THEN @
                                   ELSE <<@[1], @[2], @[4]>>])

\* createTutorial(repoData, analysisData)
CreateTutorial(repoData, analysis) == JsonText(LearningJourney(repoData, analysis))

\* firstModule.files.slice(0, 2) throws a TypeError when the first module has no files
FirstModuleLacksFiles(analysis) ==
    /\ Has(analysis, "modules")
    /\ Len(analysis.modules) > 0
    /\ ~Has(analysis.modules[1], "files")

SliceOfUndefinedError ==
    ThrownError(<<"Cannot read properties of undefined (reading 'slice')">>)

\* generateTutorial(repoData, analysisData) of the teacher
TeacherGenerateTutorial(repoData, analysis) ==
    IF CannotDestructure(repoData)
    THEN FailResponse(ErrorMessage(DestructureError("metadata", "repoData", repoData)),
                      "Teacher")
    ELSE IF CannotDestructure(analysis)
    THEN FailResponse(ErrorMessage(DestructureError("repo_name", "analysisData", analysis)),
                      "Teacher")
    ELSE IF FirstModuleLacksFiles(analysis)
    THEN FailResponse(ErrorMessage(SliceOfUndefinedError), "Teacher")
    ELSE OkResponse(CreateTutorial(repoData, analysis), "Teacher")

----------------------------------------------------------------------------
(* generateTutorial calls interleaved on the singleton orchestrator and agents *)

NumInvocations == 2

Invocations == 1..NumInvocations

ConcRepoUrls ==
    { <<"https:", "/", "/", "github.com", "/", "acme", "/", "alpha">>,
      <<"https:", "/", "/", "github.com", "/", "acme", "/", "beta">> }

\* the default endpoint and a string that is no absolute URL
ConcEndpointUrls == { DefaultEndpointUrl, <<"localhost">> }

\* what the network does with one request: fetch settles, then response.json()
NetworkScripts ==
    { << FetchEvent("fetchRejects", ThrownError(<<"Failed to fetch">>)) >>,
      << FetchEvent("responds", [status |-> 500, statusText |-> <<"Internal Server Error">>]) >>,
      << FetchEvent("responds", [status |-> 200, statusText |-> <<"OK">>]),
         FetchEvent("jsonResolves", JsonNull) >> }

IdleInvocation ==
    [ pc |-> "idle", repoUrl |-> <<>>, endpoint |-> <<>>, requestUrl |-> <<>>,
      script |-> <<>>, awaited |-> NoValue, crawlerResult |-> NoValue,
      analyzerResult |-> NoValue, agentResults |-> NewAgentResults, result |-> NoValue ]

\* the agentResults object a call writes to (its own local)
AgentResultsOfFirst(i) == inv[1].agentResults

AgentResultsOf(i) == inv[i].agentResults

\* what the catch block of fetchRepoData makes of the URL that new URL rejected
\* or of the error the network step threw
CrawlerSettles(i, event) ==
    CASE event.ev = "fetchRejects" -> CrawlerCatch(event.value, inv[i].repoUrl)
      [] event.ev = "jsonRejects" -> CrawlerCatch(event.value, inv[i].repoUrl)
      [] event.ev = "responds" -> CrawlerCatch(NotOkError(event.value), inv[i].repoUrl)
      [] event.ev = "jsonResolves" -> OkResponse(event.value, "RepoCrawler")

\* generateTutorial(repoUrl) up to its first await: fetchRepoData has read the
\* endpoint and either called fetch or caught the TypeError of new URL
ConcGenerateTutorial(i, url, script) ==
    /\ inv[i].pc = "idle"
    /\ inv' = [inv EXCEPT ![i] =
          IF IsAbsoluteUrl(mcpEndpointUrl)
          THEN [IdleInvocation EXCEPT
                  !.pc = "fetch", !.repoUrl = url, !.endpoint = mcpEndpointUrl,
                  !.requestUrl = RequestUrl(mcpEndpointUrl, url), !.script = script]
          ELSE [IdleInvocation EXCEPT
                  !.pc = "crawl", !.repoUrl = url, !.endpoint = mcpEndpointUrl,
                  !.script = script,
                  !.awaited = CrawlerCatch(InvalidUrlError, url)]]
    /\ UNCHANGED <<orchVars, crawlVars, agentVars, uiVars>>

\* await fetch(...) settles
ConcFetchSettles(i) ==
    /\ inv[i].pc = "fetch"
    /\ LET event == inv[i].script[1]
       IN  inv' = [inv EXCEPT ![i] =
             IF event.ev = "responds" /\ IsOk(event.value)
             THEN [@ EXCEPT !.pc = "json"]
             ELSE [@ EXCEPT !.pc = "crawl", !.awaited = CrawlerSettles(i, event)]]
    /\ UNCHANGED <<orchVars, crawlVars, agentVars, uiVars>>

\* await response.json() settles
ConcJsonSettles(i) ==
    /\ inv[i].pc = "json"
    /\ inv' = [inv EXCEPT ![i] =
          [@ EXCEPT !.pc = "crawl", !.awaited = CrawlerSettles(i, inv[i].script[2])]]
    /\ UNCHANGED <<orchVars, crawlVars, agentVars, uiVars>>

\* the call resumes with the crawler's response; analyzeRepo runs and is awaited
ConcCrawlerResumes(i) ==
    /\ inv[i].pc = "crawl"
    /\ LET response == inv[i].awaited
           results == SetKey(AgentResultsOf(i), "repoCrawler", response)
       IN  inv' = [inv EXCEPT ![i] =
             IF GoesOn(response)
             THEN [@ EXCEPT !.pc = "analyze", !.crawlerResult = response,
                            !.agentResults = results,
                            !.awaited = AnalyzeRepo(DataOf(response))]
             ELSE [@ EXCEPT !.pc = "done", !.crawlerResult = response,
                            !.agentResults = results, !.awaited = NoValue,
                            !.result = Catch(StepFailed("RepoCrawler", response), results)]]
    /\ UNCHANGED <<orchVars, crawlVars, agentVars, uiVars>>

\* the call resumes with the analyzer's response; the teacher runs and is awaited
ConcAnalyzerResumes(i) ==
    /\ inv[i].pc = "analyze"
    /\ LET response == inv[i].awaited
           results == SetKey(AgentResultsOf(i), "codeAnalyzer", response)
       IN  inv' = [inv EXCEPT ![i] =
             IF GoesOn(response)
             THEN [@ EXCEPT !.pc = "teach", !.analyzerResult = response,
                            !.agentResults = results,
                            !.awaited = TeacherGenerateTutorial(DataOf(inv[i].crawlerResult),
                                                                DataOf(response))]
             ELSE [@ EXCEPT !.pc = "done", !.analyzerResult = response,
                            !.agentResults = results, !.awaited = NoValue,
                            !.result = Catch(StepFailed("CodeAnalyzer", response), results)]]
    /\ UNCHANGED <<orchVars, crawlVars, agentVars, uiVars>>

\* the call resumes with the teacher's response and returns
ConcTeacherResumes(i) ==
    /\ inv[i].pc = "teach"
    /\ LET response == inv[i].awaited
           results == SetKey(AgentResultsOf(i), "teacher", response)
       IN  inv' = [inv EXCEPT ![i] =
             [@ EXCEPT !.pc = "done", !.agentResults = results, !.awaited = NoValue,
                       !.result = IF GoesOn(response)
                                  THEN Success(response, results)
                                  ELSE Catch(StepFailed("Teacher", response), results)]]
    /\ UNCHANGED <<orchVars, crawlVars, agentVars, uiVars>>

\* setMCPEndpoint(url), called by anyone between the steps above
ConcSetMCPEndpoint(url) ==
    /\ mcpEndpointUrl' = url
    /\ UNCHANGED <<fpc, fRepoUrl, fRequestUrl, fResult, fLog, orchVars, concVars, agentVars, uiVars>>

InitConcurrent == inv = [i \in Invocations |-> IdleInvocation]

NextConcurrent ==
    \/ \E i \in Invocations, url \in ConcRepoUrls, script \in NetworkScripts :
          ConcGenerateTutorial(i, url, script)
    \/ \E i \in Invocations : ConcFetchSettles(i)
    \/ \E i \in Invocations : ConcJsonSettles(i)
    \/ \E i \in Invocations : ConcCrawlerResumes(i)
    \/ \E i \in Invocations : ConcAnalyzerResumes(i)
    \/ \E i \in Invocations : ConcTeacherResumes(i)
    \/ \E url \in ConcEndpointUrls : ConcSetMCPEndpoint(url)

----------------------------------------------------------------------------

----------------------------------------------------------------------------
(* analyzeRepo called on its own, on bounded snapshots *)

\* the object {}: no key that the agents read
EmptyObject == [object |-> TRUE]

\* an object with the given keys; each argument is empty (key absent) or holds the value
SnapshotOf(fileTrees, readmes, keyFileses, metadatas) ==
    LET value(set) == CHOOSE x \in set : TRUE
        present == {"object"}
                   \cup (IF fileTrees # {} THEN {"fileTree"} ELSE {})
                   \cup (IF readmes # {} THEN {"readme"} ELSE {})
                   \cup (IF keyFileses # {} THEN {"keyFiles"} ELSE {})
                   \cup (IF metadatas # {} THEN {"metadata"} ELSE {})
    IN  [f \in present |->
            CASE f = "fileTree" -> value(fileTrees)
              [] f = "readme" -> value(readmes)
              [] f = "keyFiles" -> value(keyFileses)
              [] f = "metadata" -> value(metadatas)
              [] OTHER -> TRUE]

\* the sequences over pool of length at most n
SeqsUpTo(pool, n) == UNION {[1..k -> pool] : k \in 0..n}

FooPath == <<"src", "/", "component", "s", "/", "Foo", ".ts", "x">>

AppPath == <<"src", "/", "component", "s", "/", "App", ".ts", "x">>

PagesIndexPath == <<"src", "/", "page", "s", "/", "index", ".ts">>

\* paths of the long file trees
LongPaths == {FooPath, AppPath, PagesIndexPath}

\* paths of the short file trees
ShortPaths ==
    { <<"package", ".js", "on">>,
      <<"package", "-lock", ".js", "on">>,
      <<"yarn", ".lock">>,
      <<"pnpm", "-lock", ".yaml">>,
      <<"poetry", ".lock">>,
      <<"pyproject", ".toml">>,
      <<"requirements", ".txt">>,
      <<"Pipfile">>,
      FooPath,
      PagesIndexPath,
      <<"src", "/", "utils", "/", "index", ".js">>,
      <<"src", "\\", "component", "s", "\\", "Bar", ".py">> }

MaxLongTree == 6

MaxShortTree == 2

SampleFileTree ==
    << <<"package", ".js", "on">>, <<"src", "/", "index", ".ts">>, AppPath >>

SampleReadme == <<"# ", "GraphQL", " ", "api">>

SampleKeyFiles ==
    << [key |-> <<"src", "/", "index", ".js">>,
        value |-> <<"import ", "react", "; fetch('/", "api", "')">>] >>

SampleMetadata ==
    [ name |-> <<"acme", "/", "alpha">>,
      description |-> <<"A demo">>,
      language |-> <<"TypeScript">>,
      stars |-> 3,
      forks |-> 1 ]

\* what analyzeRepo is given: long and short file trees on their own, every
\* subset of the four keys, and the values null and undefined (a snapshot
\* provider may resolve with either)
Snapshots ==
    {SnapshotOf({t}, {}, {}, {}) :
        t \in SeqsUpTo(LongPaths, MaxLongTree) \cup SeqsUpTo(ShortPaths, MaxShortTree)}
    \cup
    {SnapshotOf(ts, r, k, m) :
        ts \in {{}, {<<>>}, {SampleFileTree}},
        r \in {{}, {SampleReadme}},
        k \in {{}, {SampleKeyFiles}},
        m \in {{}, {SampleMetadata}}}
    \cup {SnapshotOf({<<>>}, {<<>>}, {<<>>}, {}), JsonNull, Undefined}

\* the snapshots of the calls that are compared with one another
RepeatedSnapshots ==
    { JsonNull,
      EmptyObject,
      SnapshotOf({<<>>}, {<<>>}, {<<>>}, {}),
      SnapshotOf({SampleFileTree}, {SampleReadme}, {SampleKeyFiles}, {SampleMetadata}),
      SnapshotOf({<<PagesIndexPath, FooPath, AppPath>>}, {}, {}, {}) }

MaxCalls == 3

ResponseOfRemembered(impl, snapshot) ==
    IF Len(aCalls) >= 2
    THEN aCalls[1].response
    ELSE IF impl = "older" THEN AnalyzeRepoOlder(snapshot) ELSE AnalyzeRepo(snapshot)

\* the response of the call the implementation makes
ResponseOf(impl, snapshot) ==
    IF impl = "older" THEN AnalyzeRepoOlder(snapshot) ELSE AnalyzeRepo(snapshot)

\* analyzeRepo(snapshot) of either class; at most `calls` calls are followed
AnalyzeRepoCall(impl, snapshot, calls) ==
    /\ Len(aCalls) < calls
    /\ aCalls' = Append(aCalls, [ impl |-> impl, snapshot |-> snapshot,
                                  response |-> ResponseOf(impl, snapshot) ])
    /\ UNCHANGED <<orchVars, crawlVars, concVars, tCalls, uiVars>>

NextAnalyzer ==
    \E impl \in {"older", "later"}, snapshot \in Snapshots : AnalyzeRepoCall(impl, snapshot, 1)

NextAnalyzerCalls ==
    \E impl \in {"older", "later"}, snapshot \in RepeatedSnapshots :
        AnalyzeRepoCall(impl, snapshot, MaxCalls)

----------------------------------------------------------------------------
(* TeacherAgent.generateTutorial called on its own, on bounded records *)

\* the analysis of a snapshot that has every key
FullAnalysis ==
    PerformAnalysis(SnapshotOf({SampleFileTree}, {SampleReadme}, {SampleKeyFiles},
                               {SampleMetadata}))

\* the keys of the analysis record that createTutorial reads
ReadAnalysisKeys ==
    {"repo_name", "package_manager", "dev_commands", "entry_points", "main_concepts",
     "modules", "explain_terms"}

\* the record without the given keys
Without(record, keys) == [f \in (DOMAIN record) \ keys |-> record[f]]

\* the record with the key set to the value
WithKey(record, key, value) ==
    [f \in (DOMAIN record) \cup {key} |-> IF f = key THEN value ELSE record[f]]

\* the module lists tried in place of the full analysis's: none, a first module
\* without files, without name, and one with no file in it
ModuleLists ==
    { <<>>,
      << Without(FullAnalysis.modules[1], {"files"}) >>,
      << Without(FullAnalysis.modules[1], {"name"}) >>,
      << WithKey(FullAnalysis.modules[1], "files", <<>>) >> }

MaxModules == 11

\* a module list of the given length (modules?: any[] has no bound of its own)
ModulesOfLength(n) == [i \in 1..n |-> FullAnalysis.modules[1]]

\* the concept lists tried in place of the full analysis's: none, each concept
\* of the classifier on its own, and two concepts together
ConceptLists ==
    {<<>>, << <<"REST API">>, <<"Routing">> >>, << <<"Database">>, <<"Middleware">> >>}
    \cup {<<ConceptTable[i].concept>> : i \in 1..Len(ConceptTable)}

\* the dev_commands tried in place of the full analysis's: those of every
\* package manager, and records without install or with an empty one
DevCommandRecords ==
    {InferDevCommands(pm) :
        pm \in {<<"npm">>, <<"yarn">>, <<"pnpm">>, <<"pip">>, <<"poetry">>, <<"unknown">>}}
    \cup {EmptyObject,
          Without(FullAnalysis.dev_commands, {"install"}),
          WithKey(FullAnalysis.dev_commands, "install", <<>>)}

\* what the teacher is given as analysisData
AnalysisRecords ==
    {Without(FullAnalysis, keys) : keys \in SUBSET ReadAnalysisKeys}
    \cup {WithKey(FullAnalysis, "modules", ms) : ms \in ModuleLists}
    \cup {WithKey(FullAnalysis, "dev_commands", d) : d \in DevCommandRecords}
    \cup {WithKey(WithKey(FullAnalysis, "modules", ModulesOfLength(n)), "main_concepts", mc) :
              n \in 0..MaxModules, mc \in ConceptLists}
    \cup {Without(WithKey(FullAnalysis, "modules", ModulesOfLength(n)), {"main_concepts"}) :
              n \in 0..MaxModules}
    \cup {JsonNull, Undefined}

\* what the teacher is given as repoData
RepoDatas == {EmptyObject, SnapshotOf({}, {}, {}, {SampleMetadata}), JsonNull}

\* generateTutorial(repoData, analysisData) of the teacher, called once
TeacherGenerateTutorialCall(repoData, analysis) ==
    /\ tCalls = <<>>
    /\ tCalls' = << [ repoData |-> repoData, analysis |-> analysis,
                      response |-> TeacherGenerateTutorial(repoData, analysis) ] >>
    /\ UNCHANGED <<orchVars, crawlVars, concVars, aCalls, uiVars>>

NextTeacher ==
    \E repoData \in RepoDatas, analysis \in AnalysisRecords :
        TeacherGenerateTutorialCall(repoData, analysis)

----------------------------------------------------------------------------
(* generateTutorial run against the agents themselves: the snapshot that    *)
(* the crawler resolves with is classified and assembled by the real code   *)

MaxReadmeWords == 1

\* words of the readmes, each of them a trigger of detectMainConcepts or none
ConceptWords ==
    {"ssr", "endpoint", "graphql", "websocket", "state", "router", "middleware",
     "auth", "db", "hello"}

\* file trees with one file in each of the first k directories of buildModules,
\* alone, followed by files of other directories, and after a package
\* manager's file
PipelineTrees ==
    LET dirs(k) == [i \in 1..k |-> <<"src", "/">> \o ModulePatterns[i].pattern
                                     \o <<"/", "a", ".ts">>]
    IN  {dirs(k) : k \in 0..Len(ModulePatterns)}
        \cup {dirs(Len(ModulePatterns))
              \o << <<"src", "/", "lib", "/", "a", ".ts">>,
                    <<"src", "\\", "component", "s", "\\", "b", ".ts">>,
                    <<"test", "s", "/", "a", ".ts">> >>}
        \cup {<<f>> \o dirs(6) :
                 f \in {<<"package", "-lock", ".js", "on">>, <<"poetry", ".lock">>, <<"Pipfile">>}}

\* what the crawler resolves with as data: snapshot objects in which each key
\* is absent or of its declared type, and null
PipelineSnapshots ==
    {SnapshotOf(ts, r, {}, {}) :
        ts \in {{}} \cup {{t} : t \in PipelineTrees},
        r \in {{}} \cup {{w} : w \in SeqsUpTo(ConceptWords, MaxReadmeWords)}}
    \cup
    {SnapshotOf(ts, r, k, m) :
        ts \in {{}, {<<>>}, {SampleFileTree}},
        r \in {{}, {SampleReadme}},
        k \in {{}, {SampleKeyFiles}},
        m \in {{}, {SampleMetadata}}}
    \cup {JsonNull}

\* the steps of generateTutorial with the agents' own responses
NextPipeline ==
    \/ \E url \in RepoUrls : GenerateTutorial(url)
    \/ /\ pc = "crawl"
       /\ \E s \in PipelineSnapshots :
             \E r \in {OkResponse(s, "RepoCrawler")} : CrawlerReturns(r)
    \/ /\ pc = "crawl"
       /\ \E r \in {FailResponse(<<"timeout">>, "RepoCrawler")} : CrawlerReturns(r)
    \/ /\ pc = "analyze"
       /\ \E r \in {AnalyzeRepo(DataOf(crawlerResult))} : AnalyzerReturns(r)
    \/ /\ pc = "teach"
       /\ \E r \in {TeacherGenerateTutorial(DataOf(crawlerResult), DataOf(analyzerResult))} :
             TeacherReturns(r)

----------------------------------------------------------------------------
(* TutorialGenerator: the state of one component and its handleGenerate.    *)
(* A state update made in an event handler is rendered before the next user *)
(* event is delivered, so a user event sees the attributes of the latest    *)
(* state.                                                                    *)

MaxGenerations == 2

\* the texts the URL input can hold
EnteredUrls ==
    { <<>>,
      <<" ", " ">>,
      <<"https:", "/", "/", "github.com", "/", "facebook", "/", "react">>,
      <<"http:", "/", "/", "www.", "github.com", "/", "my-org", "/", "react", ".js", "/">>,
      <<" ", "https:", "/", "/", "github.com", "/", "facebook", "/", "react">>,
      <<"https:", "/", "/", "gitlab.com", "/", "facebook", "/", "react">>,
      <<"https:", "/", "/", "github.com", "/", "facebook">>,
      <<"https:", "/", "/", "github.com", "/", "facebook", "/", "react", "/", "tree">>,
      <<"https:", "/", "/", "github.com", "/", "face", ".", "book", "/", "react">>,
      <<"github.com", "/", "facebook", "/", "react">> }

TestGithubUrlPrefixOnly(url) ==
    /\ Len(url) >= 4
    /\ url[1] \in {"http:", "https:"}
    /\ url[2] = "/"
    /\ url[3] = "/"
    /\ url[4] = "github.com"

\* /^https?:\/\/(www\.)?github\.com\/[\w-]+\/[\w.-]+\/?$/.test(url)
TestGithubUrlPattern(url) ==
    LET n == Len(url)
        \* the atoms made of [\w-] characters only, and of [\w.-] characters only
        word == {"facebook", "react", "my-org", "tree", "face", "book"}
        wordOrDot == word \cup {".", ".js", "www.", "github.com", "gitlab.com"}
        host == IF n >= 4 /\ url[4] = "www." THEN 5 ELSE 4
    IN  /\ n >= host + 3
        /\ url[1] \in {"http:", "https:"}
        /\ url[2] = "/"
        /\ url[3] = "/"
        /\ url[host] = "github.com"
        /\ url[host + 1] = "/"
        /\ \E i \in (host + 2)..n, j \in (host + 2)..n :
               /\ i + 2 <= j
               /\ \A k \in (host + 2)..i : url[k] \in word
               /\ url[i + 1] = "/"
               /\ \A k \in (i + 2)..j : url[k] \in wordOrDot
               /\ j = n \/ (j + 1 = n /\ url[n] = "/")

\* what await agentOrchestrator.generateTutorial(repoUrl) resolves with: a
\* document, the text 'null', a text that is not JSON, an empty text, no
\* tutorial at all, and failures with and without a message
OrchestratorResults ==
    {Success(OkResponse(t, "Teacher"), NewAgentResults) :
        t \in {CreateTutorial(EmptyObject, FullAnalysis), JsonText(JsonNull),
               [text |-> <<"# Tutorial">>], [text |-> <<>>]}}
    \cup {Success([success |-> TRUE, agentName |-> "Teacher"], NewAgentResults)}
    \cup {Catch(ThrownError(m), NewAgentResults) :
             m \in {<<"RepoCrawler", " failed: ", "timeout">>, <<>>}}

DisabledNever == FALSE

\* disabled={isGenerating} of the input and of the button; the example link
\* is rendered under !isGenerating
Disabled == isGenerating

\* onChange of the input and onClick of the example link: setRepoUrl(url)
SetRepoUrl(url) ==
    /\ ~Disabled
    /\ gRepoUrl' = url
    /\ UNCHANGED <<isGenerating, learningJourney, currentAgent, toast, handlers,
                   orchestratorCalls>>
    /\ UNCHANGED <<orchVars, crawlVars, concVars, agentVars>>

\* onClick of the button and Enter in the input: handleGenerate() up to its
\* return or its first await
HandleGenerate ==
    /\ ~Disabled
    /\ Len(handlers) < MaxGenerations
    /\ LET blank == \A k \in 1..Len(gRepoUrl) : gRepoUrl[k] = " "
           run(pos) == [pc |-> pos, url |-> gRepoUrl, result |-> NoValue]
       IN  IF blank \/ ~TestGithubUrlPattern(gRepoUrl)
           THEN /\ toast' = [kind |-> "error",
                             message |-> IF blank
                                         THEN <<"Please enter a GitHub repository URL">>
                                         ELSE <<"Please enter a valid GitHub repository URL">>]
                /\ handlers' = Append(handlers, run("rejected"))
                /\ UNCHANGED <<isGenerating, learningJourney, currentAgent>>
           ELSE /\ isGenerating' = TRUE
                /\ learningJourney' = JsonNull
                /\ currentAgent' = <<"RepoCrawler Agent - Fetching repository data...">>
                /\ toast' = [kind |-> "info",
                             message |-> <<"RepoCrawler Agent is fetching repository data">>]
                /\ handlers' = Append(handlers, run("timeout1"))
    /\ UNCHANGED <<gRepoUrl, orchestratorCalls>>
    /\ UNCHANGED <<orchVars, crawlVars, concVars, agentVars>>

\* the first 500 ms timer fires: on to the second one
FirstTimeout(h) ==
    /\ h \in 1..Len(handlers)
    /\ handlers[h].pc = "timeout1"
    /\ handlers' = [handlers EXCEPT ![h].pc = "timeout2"]
    /\ currentAgent' = <<"CodeAnalyzer Agent - Analyzing repository structure...">>
    /\ toast' = [kind |-> "info",
                 message |-> <<"CodeAnalyzer Agent is analyzing the codebase">>]
    /\ UNCHANGED <<gRepoUrl, isGenerating, learningJourney, orchestratorCalls>>
    /\ UNCHANGED <<orchVars, crawlVars, concVars, agentVars>>

\* the second timer fires: the orchestrator is called with the URL of the run
SecondTimeout(h) ==
    /\ h \in 1..Len(handlers)
    /\ handlers[h].pc = "timeout2"
    /\ handlers' = [handlers EXCEPT ![h].pc = "generate"]
    /\ currentAgent' = <<"CodeSensei - Crafting your learning journey...">>
    /\ toast' = [kind |-> "info",
                 message |-> <<"CodeSensei is creating your interactive learning path">>]
    /\ orchestratorCalls' = Append(orchestratorCalls, handlers[h].url)
    /\ UNCHANGED <<gRepoUrl, isGenerating, learningJourney>>
    /\ UNCHANGED <<orchVars, crawlVars, concVars, agentVars>>

AfterGenerateShowsFailure(res) ==
    IF res.success /\ Has(res.tutorial, "json")
    THEN [thrown |-> FALSE, journey |-> res.tutorial.json]
    ELSE [thrown |-> FALSE, journey |-> EmptyObject]

\* the rest of handleGenerate once the orchestrator's result is known: what
\* is thrown (an Error's message) or the parsed journey
AfterGenerate(res) ==
    LET \* result.tutorial || "{}"
        text == IF res.tutorial \in {Undefined, [text |-> <<>>]}
                THEN JsonText(EmptyObject)
                ELSE res.tutorial
    IN  IF ~res.success
        THEN [thrown |-> TRUE,
              message |-> IF Has(res, "error") /\ res.error # <<>> THEN res.error
                          ELSE <<"Failed to generate learning journey">>]
        ELSE IF ~Has(text, "json")
        THEN [thrown |-> TRUE, message |-> <<"Failed to parse learning journey data">>]
        ELSE [thrown |-> FALSE, journey |-> text.json]

OrchestratorResolvesNoFinally(h, res) ==
    /\ h \in 1..Len(handlers)
    /\ handlers[h].pc = "generate"
    /\ handlers' = [handlers EXCEPT ![h].pc = "returned", ![h].result = res]
    /\ IF AfterGenerate(res).thrown
       THEN /\ toast' = [kind |-> "error", message |-> AfterGenerate(res).message]
            /\ UNCHANGED <<learningJourney, isGenerating>>
       ELSE /\ toast' = [kind |-> "success",
                         message |-> <<"Learning journey created successfully!">>]
            /\ learningJourney' = AfterGenerate(res).journey
            /\ isGenerating' = FALSE
    /\ currentAgent' = <<>>
    /\ UNCHANGED <<gRepoUrl, orchestratorCalls>>
    /\ UNCHANGED <<orchVars, crawlVars, concVars, agentVars>>

\* await agentOrchestrator.generateTutorial(repoUrl) resolves: the try block's
\* remainder, the catch block and the finally block
OrchestratorResolves(h, res) ==
    /\ h \in 1..Len(handlers)
    /\ handlers[h].pc = "generate"
    /\ handlers' = [handlers EXCEPT ![h].pc = "returned", ![h].result = res]
    /\ IF AfterGenerate(res).thrown
       THEN /\ toast' = [kind |-> "error", message |-> AfterGenerate(res).message]
            /\ UNCHANGED learningJourney
       ELSE /\ toast' = [kind |-> "success",
                         message |-> <<"Learning journey created successfully!">>]
            /\ learningJourney' = AfterGenerate(res).journey
    /\ currentAgent' = <<>>
    /\ isGenerating' = FALSE
    /\ UNCHANGED <<gRepoUrl, orchestratorCalls>>
    /\ UNCHANGED <<orchVars, crawlVars, concVars, agentVars>>

InitUI ==
    /\ gRepoUrl = <<>>
    /\ isGenerating = FALSE
    /\ learningJourney = JsonNull
    /\ currentAgent = <<>>
    /\ toast = NoValue
    /\ handlers = <<>>
    /\ orchestratorCalls = <<>>

NextUI ==
    \/ \E url \in EnteredUrls : SetRepoUrl(url)
    \/ HandleGenerate
    \/ \E h \in 1..Len(handlers) : FirstTimeout(h)
    \/ \E h \in 1..Len(handlers) : SecondTimeout(h)
    \/ \E h \in 1..Len(handlers), res \in OrchestratorResults : OrchestratorResolves(h, res)

InitAgents == aCalls = <<>> /\ tCalls = <<>>

Init == InitOrchestrator /\ InitCrawler /\ InitConcurrent /\ InitAgents /\ InitUI

SpecConcurrent == Init /\ [][NextConcurrent]_vars

Spec == Init /\ [][Next]_vars

SpecCrawler == Init /\ [][NextCrawler]_vars

SpecAnalyzer == Init /\ [][NextAnalyzer]_vars

SpecAnalyzerCalls == Init /\ [][NextAnalyzerCalls]_vars

SpecTeacher == Init /\ [][NextTeacher]_vars

SpecPipeline == Init /\ [][NextPipeline]_vars

SpecUI == Init /\ [][NextUI]_vars

\* the timers fire, and the orchestrator's promise settles (generateTutorial
\* catches every error and returns a result)
FairSpecUI ==
    /\ SpecUI
    /\ \A h \in 1..MaxGenerations :
           /\ WF_vars(FirstTimeout(h))
           /\ WF_vars(SecondTimeout(h))
           /\ WF_vars(\E res \in OrchestratorResults : OrchestratorResolves(h, res))


----------------------------------------------------------------------------
(* What the stand-in collaborators observed during the call *)

AgentKeys == <<"repoCrawler", "codeAnalyzer", "teacher">>

StepNameOf(agent) ==
    CASE agent = "repoCrawler" -> "RepoCrawler"
      [] agent = "codeAnalyzer" -> "CodeAnalyzer"
      [] agent = "teacher" -> "Teacher"

\* k with AgentKeys[k] = agent
StepIndex(agent) == CHOOSE k \in 1..3 : AgentKeys[k] = agent

IsCall(e) == e.ev = "call"

IsReturn(e) == e.ev = "return"

IsThrow(e) == e.ev = "throw"

IsFailureReturn(e) == IsReturn(e) /\ ~e.value.success

AgentsOf(events) == [i \in 1..Len(events) |-> events[i].agent]

\* the agents invoked, and the agents that returned a response, in order
Invoked == AgentsOf(SelectSeq(log, IsCall))

Responded == AgentsOf(SelectSeq(log, IsReturn))

CallCount(agent) == Cardinality({i \in 1..Len(log) : IsCall(log[i]) /\ log[i].agent = agent})

IsPrefix(s, t) == Len(s) <= Len(t) /\ \A i \in 1..Len(s) : s[i] = t[i]

\* every agent invoked before position n of Invoked returned success = true
EarlierAllSucceeded(n) ==
    \A k \in 1..(n - 1) :
        \E i \in 1..Len(log) :
            IsReturn(log[i]) /\ log[i].agent = Invoked[k] /\ log[i].value.success

----------------------------------------------------------------------------
(* Claims about AgentOrchestrator.generateTutorial *)

\* C1: if fetchRepoData returns success = false, analyzeRepo and the teacher's
\* generateTutorial are never invoked during that call, and the returned
\* agentResults has exactly one entry, under the key repoCrawler.
C1_CrawlerFailureShortCircuits ==
    \A i \in 1..Len(log) :
        (IsFailureReturn(log[i]) /\ log[i].agent = "repoCrawler") =>
            /\ CallCount("codeAnalyzer") = 0
            /\ CallCount("teacher") = 0
            /\ pc = "done"
            /\ Keys(result.agentResults) = <<"repoCrawler">>
            /\ result.agentResults[1].value = log[i].value

C1_Witness ==
    /\ pc = "done"
    /\ crawlerResult # NoValue
    /\ ~crawlerResult.success
    /\ Len(result.agentResults) = 1

C3_TutorialIffSuccess ==
    pc = "done" =>
        /\ ("tutorial" \in DOMAIN result) <=> result.success
        /\ ("error" \in DOMAIN result) <=> ~result.success
        /\ result.success => result.tutorial # Undefined

C3_Witness ==
    /\ pc = "done"
    /\ result.success
    /\ result.tutorial \in TeacherData

\* C4: when the k-th agent is the first to return success = false with error
\* text e, generateTutorial returns success = false with error exactly
\* '<AgentName> failed: ' followed by e, AgentName being RepoCrawler,
\* CodeAnalyzer or Teacher.
C4_FailureMessageNamesStep ==
    \A i \in 1..Len(log) :
        IsFailureReturn(log[i]) =>
            /\ pc = "done"
            /\ ~result.success
            /\ result.error = <<StepNameOf(log[i].agent), " failed: ">> \o log[i].value.error

C4_Witness ==
    /\ pc = "done"
    /\ IsFailureReturn(Last(log))
    /\ Last(log).agent = "teacher"
    /\ Last(log).value.error = <<"timeout">>
    /\ result.error = <<"Teacher", " failed: ", "timeout">>

\* C5: when generateTutorial returns success = false because the k-th agent
\* returned a failure response, agentResults has exactly k entries, the first
\* k-1 with success = true and the k-th with success = false, and no entry for
\* any later agent.
C5_FailureLeavesKEntries ==
    \A i \in 1..Len(log) :
        IsFailureReturn(log[i]) =>
            LET k == StepIndex(log[i].agent)
                entries == result.agentResults
            IN  /\ pc = "done"
                /\ ~result.success
                /\ Len(entries) = k
                /\ Keys(entries) = SubSeq(AgentKeys, 1, k)
                /\ \A j \in 1..(k - 1) : entries[j].value.success
                /\ ~entries[k].value.success

C5_Witness ==
    /\ pc = "done"
    /\ IsFailureReturn(Last(log))
    /\ Last(log).agent = "codeAnalyzer"
    /\ Len(result.agentResults) = 2

\* C6: when all three agents return success = true, generateTutorial returns
\* success = true, tutorial equal to the teacher response's data, and
\* agentResults with exactly three entries, all with success = true.
C6_AllSucceed ==
    (/\ Len(SelectSeq(log, IsReturn)) = 3
     /\ \A i \in 1..Len(log) : IsReturn(log[i]) => log[i].value.success) =>
        /\ pc = "done"
        /\ result.success
        /\ result.tutorial = Last(log).value.data
        /\ Keys(result.agentResults) = AgentKeys
        /\ \A j \in 1..3 : result.agentResults[j].value.success

C6_Witness ==
    /\ pc = "done"
    /\ Responded = AgentKeys
    /\ result.success
    /\ result.tutorial = [stub |-> "tutorialB"]
    /\ crawlerResult.data = [stub |-> "snapshotA"]

C8_SequentialAtMostOnce ==
    /\ \A k \in 1..3 : CallCount(AgentKeys[k]) <= 1
    /\ \A i \in 1..Len(log) :
        IsCall(log[i]) =>
            IF i = 1
            THEN log[i].agent = "repoCrawler"
            ELSE /\ IsReturn(log[i - 1])
                 /\ log[i - 1].value.success
                 /\ StepIndex(log[i].agent) = StepIndex(log[i - 1].agent) + 1
    /\ \A i \in 1..Len(log) :
        (IsFailureReturn(log[i]) \/ IsThrow(log[i])) => i = Len(log)
    \* at most one call is pending, and only while the call is not done
    /\ Len(Invoked) - Len(SelectSeq(log, IsReturn)) - Len(SelectSeq(log, IsThrow))
          = IF pc \in {"crawl", "analyze", "teach"} THEN 1 ELSE 0

C8_Witness ==
    /\ pc = "done"
    /\ Len(log) = 4
    /\ IsFailureReturn(Last(log))
    /\ CallCount("repoCrawler") = 1
    /\ CallCount("codeAnalyzer") = 1
    /\ CallCount("teacher") = 0

----------------------------------------------------------------------------
(* Claims about concurrent calls and about RepoCrawlerAgent.fetchRepoData *)

IsDone(i) == inv[i].pc = "done"

\* C9 (as stated): interleaved generateTutorial calls on the singletons share
\* no mutable state: the result and agentResults of a call depend only on its
\* own repoUrl and on what its own agents answer, under every interleaving with
\* other calls and with setMCPEndpoint. So two calls given the same repoUrl and
\* the same network answers return the same result.
C9_ResultFromOwnInputsOnly ==
    \A i, j \in Invocations :
        (/\ IsDone(i) /\ IsDone(j)
         /\ inv[i].repoUrl = inv[j].repoUrl
         /\ inv[i].script = inv[j].script) =>
            inv[i].result = inv[j].result

\* C9 (amended): the one piece of state the calls share is the crawler's
\* configured endpoint URL, which setMCPEndpoint changes and every call reads
\* once, as it starts. The result and agentResults of a call depend only on
\* its own repoUrl, the endpoint URL configured when it started and the
\* network's answers to its own request, under every interleaving with other
\* calls and with setMCPEndpoint; agentResults holds no entry of another call.
C9_ResultFromOwnInputsAndEndpoint ==
    /\ \A i, j \in Invocations :
        (/\ IsDone(i) /\ IsDone(j)
         /\ inv[i].repoUrl = inv[j].repoUrl
         /\ inv[i].script = inv[j].script
         /\ inv[i].endpoint = inv[j].endpoint) =>
            inv[i].result = inv[j].result
    /\ \A i \in Invocations :
        /\ IsPrefix(Keys(inv[i].agentResults), AgentKeys)
        /\ Len(inv[i].agentResults) =
              CASE inv[i].pc \in {"idle", "fetch", "json", "crawl"} -> 0
                [] inv[i].pc = "analyze" -> 1
                [] inv[i].pc = "teach" -> 2
                [] OTHER -> Len(inv[i].result.agentResults)
        /\ IsDone(i) => inv[i].result.agentResults = inv[i].agentResults
        /\ (inv[i].crawlerResult # NoValue /\ inv[i].crawlerResult.success
            /\ Has(inv[i].crawlerResult.data, "metadata")) =>
              inv[i].crawlerResult.data.metadata.name = MockRepoName(inv[i].repoUrl)

C9_Witness ==
    /\ IsDone(1) /\ IsDone(2)
    /\ inv[1].repoUrl = inv[2].repoUrl
    /\ inv[1].script = inv[2].script
    /\ inv[1].endpoint = DefaultEndpointUrl
    /\ inv[2].endpoint = DefaultEndpointUrl
    /\ mcpEndpointUrl # DefaultEndpointUrl
    /\ inv[1].result.success
    /\ inv[1].result = inv[2].result

\* the error fetchRepoData caught in the call that just ended, if it caught one
Caught ==
    LET e == Last(fLog)
    IN  IF e.ev = "responds" THEN NotOkError(e.value) ELSE e.value

CaughtSomething == fLog # <<>> /\ Last(fLog).ev # "jsonResolves"

\* C10: fetchRepoData never throws. On a transport failure (an error whose
\* message contains 'Failed to fetch' or 'NetworkError') it returns
\* success = true with the mock snapshot; on any other error, a non-OK HTTP
\* status included, it returns success = false with the error message and no
\* data.
C10_MockOnTransportFailureOnly ==
    (fpc = "done" /\ CaughtSomething) =>
        /\ IF \/ Includes(Caught.message, <<"Failed to fetch">>)
              \/ Includes(Caught.message, <<"NetworkError">>)
           THEN fResult = OkResponse(MockSnapshot(fRepoUrl), "RepoCrawler")
           ELSE fResult = FailResponse(Caught.message, "RepoCrawler")
        /\ Last(fLog).ev = "responds" =>
              /\ ~fResult.success
              /\ fResult.error = Caught.message
              /\ ~Has(fResult, "data")

----------------------------------------------------------------------------
(* Claims about CodeAnalyzerAgent.analyzeRepo called on its own *)

Elems(seq) == {seq[i] : i \in 1..Len(seq)}

AnalyzerCalls == Elems(aCalls)

LaterCalls == {c \in AnalyzerCalls : c.impl = "later"}

OlderCalls == {c \in AnalyzerCalls : c.impl = "older"}

IsObject(value) == ~CannotDestructure(value)

\* the snapshot with an empty collection for each absent key
Filled(snapshot) ==
    SnapshotOf({FileTreeOf(snapshot)},
               {IF Has(snapshot, "readme") THEN snapshot.readme ELSE <<>>},
               {IF Has(snapshot, "keyFiles") THEN snapshot.keyFiles ELSE <<>>},
               {IF Has(snapshot, "metadata") THEN snapshot.metadata ELSE EmptyObject})

AbsentAsEmpty(c) ==
    /\ c.response.success
    /\ ~Has(c.response, "error")
    /\ c.response.data = PerformAnalysis(Filled(c.snapshot))
    /\ c.response.data.ground_truth_paths = FileTreeOf(c.snapshot)

\* C11 (as stated): analyzeRepo never fails: for every snapshot it is given, with
\* any subset of readme, fileTree, keyFiles, metadata absent, it returns
\* success = true with the analysis in which each absent key counts as an empty
\* collection; it never returns success = false.
C11_AnalyzeRepoNeverFails ==
    \A c \in LaterCalls : AbsentAsEmpty(c)

\* C11 (amended): analyzeRepo never throws. Given an object, with any subset of
\* readme, fileTree, keyFiles, metadata absent, it returns success = true with
\* the analysis in which each absent key counts as an empty collection. Given
\* null or undefined it returns success = false with the TypeError's message
\* as error and no data.
C11_AnalyzeRepoFailsOnlyOnNoObject ==
    \A c \in LaterCalls :
        /\ IsObject(c.snapshot) => AbsentAsEmpty(c)
        /\ ~IsObject(c.snapshot) =>
              /\ ~c.response.success
              /\ ~Has(c.response, "data")
              /\ c.response.error =
                    <<"Cannot destructure property '", "readme", "' of '", "repoSnapshot",
                      "' as it is ", IF c.snapshot = JsonNull THEN "null" ELSE "undefined", ".">>

C11_Witness ==
    \E c \in LaterCalls :
        /\ c.snapshot = SnapshotOf({}, {}, {SampleKeyFiles}, {})
        /\ c.response.success
        /\ c.response.data.ground_truth_paths = <<>>
        /\ c.response.data.repo_name = <<"unknown", "/", "repo">>
        /\ c.response.data.main_concepts = << <<"REST API">> >>

TeacherCalls == Elems(tCalls)

\* the parsed document of a successful teacher response
DocumentOf(c) == c.response.data.json

\* C12: TeacherAgent.generateTutorial never fails: for every snapshot and
\* every analysis record, including records in which repo_name, dev_commands,
\* entry_points, main_concepts, modules or a module's files are missing, it
\* returns success = true with a document in which a placeholder stands for
\* each missing value.
C12_TeacherNeverFails ==
    \A c \in TeacherCalls :
        (IsObject(c.repoData) /\ IsObject(c.analysis)) =>
            /\ c.response.success
            /\ ~Has(c.response, "error")
            /\ (~Has(c.analysis, "repo_name") /\ ~Has(c.repoData, "metadata")) =>
                  DocumentOf(c).project_title = <<"Repository Learning Journey">>
            /\ ~Has(c.analysis, "entry_points") =>
                  DocumentOf(c).learning_path[2].steps[1] =
                      <<"Open ", "the entry point file", " to understand the app initialization">>
            /\ ~Has(c.analysis, "modules") =>
                  DocumentOf(c).learning_path[3].steps[2] = <<"Pick a file to modify">>

HasNoFileTree(snapshot) == FileTreeOf(snapshot) = <<>>

HasNoReadme(snapshot) == ~Has(snapshot, "readme") \/ snapshot.readme = <<>>

HasNoKeyFiles(snapshot) == ~Has(snapshot, "keyFiles") \/ snapshot.keyFiles = <<>>

EmptyOlderAnalysis(c) ==
    /\ c.response.success
    /\ c.response.data.tech_stack = <<>>
    /\ c.response.data.core_modules = <<>>

FallbackSummary(c) == c.response.data.summary = <<"Repository analysis completed.">>

EmptyLaterAnalysis(c) ==
    /\ c.response.success
    /\ c.response.data.modules = <<>>
    /\ c.response.data.entry_points = <<>>
    /\ c.response.data.main_concepts = <<>>
    /\ c.response.data.package_manager = <<"unknown">>

\* C13 (as stated): for every snapshot with an empty file tree and no README the
\* classifier returns empty tech-stack, module, entry-point and concept
\* collections, package manager 'unknown' and the summary
\* 'Repository analysis completed.'
C13_EmptyTreeNoReadmeGivesEmptyAnalysis ==
    \A c \in AnalyzerCalls :
        (IsObject(c.snapshot) /\ HasNoFileTree(c.snapshot) /\ HasNoReadme(c.snapshot)) =>
            IF c.impl = "older" THEN EmptyOlderAnalysis(c) /\ FallbackSummary(c)
            ELSE EmptyLaterAnalysis(c)

\* C13 (amended): for every snapshot with an empty file tree, no README and no
\* key files the classifier returns empty tech-stack, module, entry-point and
\* concept collections and package manager 'unknown'; the summary is
\* 'Repository analysis completed.' exactly when the snapshot has no metadata
\* either (with metadata it begins '<name> is a <language> project').
C13_NothingToReadGivesEmptyAnalysis ==
    \A c \in AnalyzerCalls :
        (/\ IsObject(c.snapshot) /\ HasNoFileTree(c.snapshot)
         /\ HasNoReadme(c.snapshot) /\ HasNoKeyFiles(c.snapshot)) =>
            IF c.impl = "older"
            THEN /\ EmptyOlderAnalysis(c)
                 /\ FallbackSummary(c) <=> ~Has(c.snapshot, "metadata")
                 /\ Has(c.snapshot, "metadata") =>
                       IsPrefix(c.snapshot.metadata.name \o <<" is a ">>,
                                c.response.data.summary)
            ELSE EmptyLaterAnalysis(c)

C13_Witness ==
    \E c \in OlderCalls :
        /\ c.snapshot = SnapshotOf({<<>>}, {}, {}, {})
        /\ EmptyOlderAnalysis(c)
        /\ FallbackSummary(c)

\* the managers in the priority order of the claim, each with its markers
ManagerMarkers ==
    << [manager |-> <<"npm">>, markers |-> {<<"package", "-lock", ".js", "on">>}],
       [manager |-> <<"yarn">>, markers |-> {<<"yarn", ".lock">>}],
       [manager |-> <<"pnpm">>, markers |-> {<<"pnpm", "-lock", ".yaml">>}],
       [manager |-> <<"poetry">>, markers |-> {<<"poetry", ".lock">>, <<"pyproject", ".toml">>}],
       [manager |-> <<"pip">>, markers |-> {<<"requirements", ".txt">>, <<"pipfile">>}] >>

\* the marker occurs in a path of the file tree, in any letter case
MarkerOccurs(fileTree, marker) ==
    \E k \in 1..Len(fileTree) : Includes(Lower(fileTree[k]), marker)

FirstManager(snapshot) ==
    IF ~Has(snapshot, "fileTree") THEN <<"unknown">>
    ELSE LET hits == {i \in 1..Len(ManagerMarkers) :
                         \E m \in ManagerMarkers[i].markers : MarkerOccurs(snapshot.fileTree, m)}
         IN  IF hits = {} THEN <<"unknown">>
             ELSE ManagerMarkers[CHOOSE i \in hits : \A j \in hits : i <= j].manager

\* C14: detectPackageManager returns the first manager, in the priority order
\* npm, yarn, pnpm, poetry, pip, whose marker occurs in the file tree, and
\* 'unknown' when none occurs or the file tree is absent; a file tree with
\* yarn.lock and without package-lock.json yields 'yarn'.
C14_FirstManagerInPriorityOrder ==
    \A c \in LaterCalls :
        IsObject(c.snapshot) =>
            /\ c.response.data.package_manager = FirstManager(c.snapshot)
            /\ (/\ Has(c.snapshot, "fileTree")
                /\ MarkerOccurs(c.snapshot.fileTree, <<"yarn", ".lock">>)
                /\ ~MarkerOccurs(c.snapshot.fileTree, <<"package", "-lock", ".js", "on">>)) =>
                  c.response.data.package_manager = <<"yarn">>

C14_Witness ==
    \E c \in LaterCalls :
        /\ IsObject(c.snapshot)
        /\ Has(c.snapshot, "fileTree")
        /\ c.snapshot.fileTree = << <<"pnpm", "-lock", ".yaml">>, <<"yarn", ".lock">> >>
        /\ c.response.data.package_manager = <<"yarn">>

\* the positions of the file tree under a components directory
ComponentsPositions(fileTree) ==
    {k \in 1..Len(fileTree) :
        \/ Includes(Lower(fileTree[k]), <<"/", "component", "s", "/">>)
        \/ Includes(Lower(fileTree[k]), <<"\\", "component", "s", "\\">>)}

\* how many paths under a components directory stand at or before position k
ComponentsRank(fileTree, k) ==
    Cardinality({j \in ComponentsPositions(fileTree) : j <= k})

\* the first position of the path in the file tree, 0 when it is not there
FirstPosition(fileTree, path) ==
    LET at == {k \in 1..Len(fileTree) : fileTree[k] = path}
    IN  IF at = {} THEN 0 ELSE CHOOSE k \in at : \A j \in at : k <= j

UIComponentsModules(c) ==
    {m \in Elems(c.response.data.modules) : m.name = <<"UI ", "Component", "s">>}

HasFooPath(c) ==
    /\ c.impl = "later"
    /\ IsObject(c.snapshot)
    /\ Has(c.snapshot, "fileTree")
    /\ FirstPosition(c.snapshot.fileTree, FooPath) # 0

\* C15 (as stated): for every snapshot whose file tree contains
\* 'src/components/Foo.tsx', with any other paths before or after it, the
\* modules include one named 'UI Components' whose files include that path
\* and whose key_symbols include 'Foo'.
C15_FooAlwaysListed ==
    \A c \in AnalyzerCalls :
        HasFooPath(c) =>
            \E m \in UIComponentsModules(c) :
                /\ FooPath \in Elems(m.files)
                /\ <<"Foo">> \in Elems(m.key_symbols)

\* C15 (amended): for every snapshot whose file tree contains
\* 'src/components/Foo.tsx' the modules include exactly one named
\* 'UI Components'; its files include that path if and only if the path is
\* among the first five file-tree paths under a components directory, and
\* its key_symbols include 'Foo' if it is among the first three.
C15_FooListedWhenAmongFirst ==
    \A c \in AnalyzerCalls :
        HasFooPath(c) =>
            LET fileTree == c.snapshot.fileTree
                rank == ComponentsRank(fileTree, FirstPosition(fileTree, FooPath))
            IN  /\ Cardinality(UIComponentsModules(c)) = 1
                /\ \A m \in UIComponentsModules(c) :
                      /\ FooPath \in Elems(m.files) <=> rank <= 5
                      /\ rank <= 3 => <<"Foo">> \in Elems(m.key_symbols)
                      /\ Len(m.key_symbols) <= 3

C15_Witness ==
    \E c \in AnalyzerCalls :
        /\ HasFooPath(c)
        /\ c.snapshot.fileTree = <<AppPath, PagesIndexPath, AppPath, AppPath, FooPath>>
        /\ \E m \in UIComponentsModules(c) :
              /\ FooPath \in Elems(m.files)
              /\ m.key_symbols = << <<"App">>, <<"App">>, <<"App">> >>

SampleCalls ==
    {c \in LaterCalls : /\ IsObject(c.snapshot)
                        /\ Has(c.snapshot, "fileTree")
                        /\ c.snapshot.fileTree = SampleFileTree}

\* C17: for the file tree ['package.json', 'src/index.ts',
\* 'src/components/App.tsx'] (no lock file) the entry points include
\* 'src/index.ts', the modules include one named 'UI Components' whose files
\* contain 'src/components/App.tsx', the package manager is 'unknown' and the
\* dev_commands install, run and test are all 'unknown'.
C17_SampleTreeAnalysis ==
    \A c \in SampleCalls :
        LET d == c.response.data
        IN  /\ c.response.success
            /\ <<"src", "/", "index", ".ts">> \in Elems(d.entry_points)
            /\ \E m \in Elems(d.modules) :
                  m.name = <<"UI ", "Component", "s">> /\ AppPath \in Elems(m.files)
            /\ d.package_manager = <<"unknown">>
            /\ d.dev_commands = [install |-> <<"unknown">>, run |-> <<"unknown">>,
                                 test |-> <<"unknown">>]

C17_Witness ==
    \E c \in SampleCalls :
        /\ ~Has(c.snapshot, "readme")
        /\ c.response.data.entry_points = << <<"src", "/", "index", ".ts">>, AppPath >>
        /\ Len(c.response.data.modules) = 1
        /\ c.response.data.dev_commands.install = <<"unknown">>

\* the calls of the later class on an object with a file tree
TreeCalls == {c \in LaterCalls : IsObject(c.snapshot) /\ Has(c.snapshot, "fileTree")}

\* the positions of the file tree that contain some entry pattern
EntryPositions(fileTree) ==
    {k \in 1..Len(fileTree) :
        \E i \in 1..Len(EntryPatterns) : Includes(Lower(fileTree[k]), EntryPatterns[i])}

\* the i-th smallest member of a set of positions
Kth(positions, i) ==
    CHOOSE k \in positions : Cardinality({j \in positions : j < k}) = i - 1

\* C18: findEntryPoints returns the first (at most 5) file-tree elements that
\* contain some entry pattern, in file-tree order: at most 5 entries, a
\* subsequence of the file tree that skips no matching element before an
\* included one, one entry per position however many patterns it matches.
C18_FirstFiveEntryPoints ==
    \A c \in TreeCalls :
        LET fileTree == c.snapshot.fileTree
            entries == c.response.data.entry_points
            matching == EntryPositions(fileTree)
        IN  /\ Len(entries) <= 5
            /\ Len(entries) = IF Cardinality(matching) < 5 THEN Cardinality(matching) ELSE 5
            /\ \A i \in 1..Len(entries) : entries[i] = fileTree[Kth(matching, i)]

C18_Witness ==
    \E c \in TreeCalls :
        /\ c.snapshot.fileTree =
              <<FooPath, PagesIndexPath, AppPath, PagesIndexPath, AppPath, AppPath>>
        /\ c.response.data.entry_points =
              <<PagesIndexPath, AppPath, PagesIndexPath, AppPath, AppPath>>

\* the position in the fragment table of the module's name, 0 when it is not there
FragmentIndex(module) ==
    LET at == {i \in 1..Len(ModulePatterns) : ModulePatterns[i].name = module.name}
    IN  IF at = {} THEN 0 ELSE CHOOSE i \in at : TRUE

\* the path has the fragment as a directory segment
HasSegment(path, fragment) ==
    \/ Includes(Lower(path), <<"/">> \o fragment \o <<"/">>)
    \/ Includes(Lower(path), <<"\\">> \o fragment \o <<"\\">>)

\* C19: buildModules returns at most one module per fragment key, in the
\* declaration order of the fragment table whatever the order of the paths in
\* the file tree; every module has between 1 and 5 files, all of them
\* file-tree paths that contain the fragment as a directory segment.
C19_ModulesInTableOrder ==
    \A c \in TreeCalls :
        LET fileTree == c.snapshot.fileTree
            modules == c.response.data.modules
        IN  /\ \A a \in 1..Len(modules) : FragmentIndex(modules[a]) # 0
            /\ \A a, b \in 1..Len(modules) :
                  a < b => FragmentIndex(modules[a]) < FragmentIndex(modules[b])
            /\ \A a \in 1..Len(modules) :
                  /\ Len(modules[a].files) >= 1
                  /\ Len(modules[a].files) <= 5
                  /\ \A f \in Elems(modules[a].files) :
                        /\ f \in Elems(fileTree)
                        /\ HasSegment(f, ModulePatterns[FragmentIndex(modules[a])].pattern)
            /\ \A i \in 1..Len(ModulePatterns) :
                  (\E f \in Elems(fileTree) : HasSegment(f, ModulePatterns[i].pattern))
                  <=> (\E a \in 1..Len(modules) : FragmentIndex(modules[a]) = i)

C19_Witness ==
    \E c \in TreeCalls :
        /\ c.snapshot.fileTree = <<PagesIndexPath, FooPath, AppPath, AppPath, FooPath, AppPath>>
        /\ Len(c.response.data.modules) = 2
        /\ c.response.data.modules[1].name = <<"UI ", "Component", "s">>
        /\ c.response.data.modules[1].files = <<FooPath, AppPath, AppPath, FooPath, AppPath>>
        /\ c.response.data.modules[2].name = <<"Application ", "Page", "s">>

\* the first module whose name contains the word, in any letter case; 0 when none
FirstNamed(modules, word) ==
    LET hits == {i \in 1..Len(modules) : Includes(Lower(modules[i].name), word)}
    IN  IF hits = {} THEN 0 ELSE CHOOSE i \in hits : \A j \in hits : i <= j

\* C20: inferDataFlowEdges produces at most two edges: entry_points[0] ->
\* pagesModule.files[0] exactly when there is an entry point, more than one
\* module and a module named with 'page' that has a file; pagesModule.files[0]
\* -> componentsModule.files[0] exactly when in addition a module named with
\* 'component' exists; the second edge never comes without the first.
C20_AtMostTwoEdges ==
    \A c \in LaterCalls :
        IsObject(c.snapshot) =>
            LET d == c.response.data
                edges == d.data_flow_edges
                p == FirstNamed(d.modules, <<"page">>)
                q == FirstNamed(d.modules, <<"component">>)
                first == /\ Len(d.entry_points) > 0
                         /\ Len(d.modules) > 1
                         /\ p # 0
                         /\ Len(d.modules[p].files) > 0
                second == first /\ q # 0
                firstEdge == [from |-> d.entry_points[1], to |-> d.modules[p].files[1]]
                secondEdge == [from |-> d.modules[p].files[1], to |-> d.modules[q].files[1]]
                ends(e) == [from |-> e.from, to |-> e.to]
            IN  /\ Len(edges) <= 2
                /\ Len(edges) = (IF first THEN 1 ELSE 0) + (IF second THEN 1 ELSE 0)
                /\ first => ends(edges[1]) = firstEdge
                /\ second => ends(edges[2]) = secondEdge

C20_Witness ==
    \E c \in LaterCalls :
        /\ IsObject(c.snapshot)
        /\ Has(c.snapshot, "fileTree")
        /\ c.snapshot.fileTree = <<FooPath, PagesIndexPath>>
        /\ Len(c.response.data.data_flow_edges) = 2
        /\ c.response.data.data_flow_edges[1].from = PagesIndexPath
        /\ c.response.data.data_flow_edges[1].to = PagesIndexPath
        /\ c.response.data.data_flow_edges[2].to = FooPath

----------------------------------------------------------------------------
(* The glossary of the classifier *)

\* the analysis record of the run, once the classifier has returned it
Analysed == pc \in {"teach", "done"} /\ analyzerResult # NoValue /\ analyzerResult.success

\* the package managers and the concepts that have a definition
DefinedManagers == {<<"npm">>, <<"yarn">>, <<"pnpm">>, <<"pip">>, <<"poetry">>}

DefinedConcepts ==
    {<<"SSR">>, <<"REST API">>, <<"GraphQL">>, <<"State Management">>,
     <<"Component-based UI">>, <<"Authentication">>, <<"Middleware">>}

\* C21: explain_terms holds one term for the package manager exactly when it
\* is not 'unknown' and has a definition, then one term for each detected
\* concept that has a definition, in concept order; a concept without a
\* definition (WebSocket, Routing, Database) gives no term and no error, and
\* nothing else gives a term.
C21_TermsForManagerAndDefinedConcepts ==
    Analysed =>
        LET analysis == analyzerResult.data
            terms == analysis.explain_terms
            names == [i \in 1..Len(terms) |-> terms[i].term]
            defined(c) == c \in DefinedConcepts
            forManager == IF analysis.package_manager \in DefinedManagers
                          THEN <<analysis.package_manager>> ELSE <<>>
        IN  /\ names = forManager \o SelectSeq(analysis.main_concepts, defined)
            /\ \A i \in 1..Len(terms) : terms[i].definition # <<>>
            /\ analysis.package_manager = <<"unknown">> => forManager = <<>>

\* a package manager with a definition, a concept with one and a concept without
C21_Witness ==
    /\ Analysed
    /\ analyzerResult.data.package_manager = <<"npm">>
    /\ Contains(analyzerResult.data.main_concepts, <<"REST API">>)
    /\ Contains(analyzerResult.data.main_concepts, <<"Routing">>)
    /\ Len(analyzerResult.data.explain_terms) = Len(analyzerResult.data.main_concepts)

----------------------------------------------------------------------------
(* The difficulty level and the learning path of the assembler *)

\* the difficulty that the module count and the concept list call for
DifficultyFor(moduleCount, concepts) ==
    IF moduleCount > 10
       \/ \E i \in 1..Len(concepts) :
              concepts[i] \in {<<"GraphQL">>, <<"WebSocket">>, <<"Middleware">>, <<"SSR">>}
    THEN <<"advanced">>
    ELSE IF moduleCount > 5 THEN <<"intermediate">>
    ELSE <<"beginner">>

\* the module count and the concept list of a call, an absent list being empty
ModulesGiven(c) == IF Has(c.analysis, "modules") THEN Len(c.analysis.modules) ELSE 0

ConceptsGiven(c) == IF Has(c.analysis, "main_concepts") THEN c.analysis.main_concepts ELSE <<>>

\* C22: determineDifficulty returns 'advanced' whenever there are more than 10
\* modules or one of GraphQL, WebSocket, Middleware, SSR is among the concepts,
\* otherwise 'intermediate' when there are more than 5 modules, otherwise
\* 'beginner', for every module list and concept list, an absent concept list
\* included.
C22_DifficultyByModulesAndConcepts ==
    \A c \in TeacherCalls :
        c.response.success =>
            DocumentOf(c).difficulty_level = DifficultyFor(ModulesGiven(c), ConceptsGiven(c))

\* the stages of the learning path of a document
StagesOf(c) ==
    LET path == DocumentOf(c).learning_path
    IN  [i \in 1..Len(path) |-> path[i].stage]

\* C23: for every analysis record, the learning_path of the document has
\* exactly 4 stages, in the order 'Setup & Run', 'Architecture & Core Logic',
\* 'Feature Exploration', 'Build Your Own'; no stage is left out or added
\* because of the analysis fields that are present or absent.
C23_FourStagesInFixedOrder ==
    \A c \in TeacherCalls :
        c.response.success =>
            StagesOf(c) = << <<"Setup & Run">>, <<"Architecture & Core Logic">>,
                             <<"Feature Exploration">>, <<"Build Your Own">> >>

\* a document made from a record without modules, entry_points and dev_commands
C23_Witness ==
    \E c \in TeacherCalls :
        /\ c.response.success
        /\ ~Has(c.analysis, "modules")
        /\ ~Has(c.analysis, "entry_points")
        /\ ~Has(c.analysis, "dev_commands")
        /\ Len(StagesOf(c)) = 4
        /\ DocumentOf(c).learning_path[3].steps[1] = <<"Choose a main component to modify">>

\* the install command that the record holds, 'unknown' when it holds none
InstallGiven(c) ==
    IF Has(c.analysis, "dev_commands") /\ Has(c.analysis.dev_commands, "install")
       /\ c.analysis.dev_commands.install # <<>>
    THEN c.analysis.dev_commands.install
    ELSE <<"unknown">>

\* C24: the quiz of the 'Setup & Run' stage has one question; its answer is
\* the install command of the record ('unknown' when absent), the answer is
\* one of the options, and no option occurs twice.
C24_InstallQuizAnswerAmongOptions ==
    \A c \in TeacherCalls :
        c.response.success =>
            LET stage == DocumentOf(c).learning_path[1]
                q == stage.quiz[1]
            IN  /\ stage.stage = <<"Setup & Run">>
                /\ Len(stage.quiz) = 1
                /\ q.answer = InstallGiven(c)
                /\ \E i \in 1..Len(q.options) : q.options[i] = q.answer
                /\ \A i, j \in 1..Len(q.options) : q.options[i] = q.options[j] => i = j

\* the install command is one of the fixed options, and the record has none
C24_Witness ==
    /\ \E c \in TeacherCalls :
           /\ c.response.success
           /\ InstallGiven(c) = <<"npm install">>
           /\ Len(DocumentOf(c).learning_path[1].quiz[1].options) = 3

----------------------------------------------------------------------------
(* The run of the orchestrator against the agents themselves *)

\* the run is over and the crawler had resolved with a snapshot object
DoneOnSnapshot ==
    /\ pc = "done"
    /\ crawlerResult # NoValue
    /\ crawlerResult.success
    /\ IsObject(DataOf(crawlerResult))

\* C25: whenever the crawler returns success = true with a snapshot object
\* (readme, fileTree, keyFiles, metadata each absent or of its declared type),
\* generateTutorial returns success = true with three successful agentResults
\* entries; the analysis record holds every field the teacher dereferences.
C25_PipelineSucceedsOnSnapshotObject ==
    /\ DoneOnSnapshot =>
           /\ result.success
           /\ Has(result, "tutorial")
           /\ Keys(result.agentResults) = <<"repoCrawler", "codeAnalyzer", "teacher">>
           /\ \A i \in 1..Len(result.agentResults) : result.agentResults[i].value.success
    /\ (Analysed /\ IsObject(DataOf(crawlerResult))) =>
           /\ ReadAnalysisKeys \subseteq DOMAIN analyzerResult.data
           /\ \A i \in 1..Len(analyzerResult.data.modules) :
                  {"name", "files"} \subseteq DOMAIN analyzerResult.data.modules[i]

\* a finished run whose snapshot gave modules for the teacher to read
C25_Witness ==
    /\ DoneOnSnapshot
    /\ result.success
    /\ Len(analyzerResult.data.modules) >= 6
    /\ ~Has(DataOf(crawlerResult), "metadata")

\* the run is over with a document
DoneWithDocument == pc = "done" /\ result # NoValue /\ result.success

\* C26: through the pipeline the classifier never yields more than 9 modules;
\* so for every snapshot the document's estimated_duration is '2-3 hours' when
\* more than 5 modules were found and '1-2 hours' otherwise, never '4-6
\* hours', and difficulty_level is 'advanced' only when an advanced concept
\* was detected, never because of the module count.
C26_AtMostNineModulesThroughPipeline ==
    /\ Analysed => Len(analyzerResult.data.modules) <= 9
    /\ DoneWithDocument =>
           LET analysis == analyzerResult.data
               document == result.tutorial.json
           IN  /\ document.estimated_duration =
                      IF Len(analysis.modules) > 5 THEN <<"2-3 hours">> ELSE <<"1-2 hours">>
               /\ document.estimated_duration # <<"4-6 hours">>
               /\ document.difficulty_level = <<"advanced">> =>
                      \E i \in 1..Len(analysis.main_concepts) :
                          analysis.main_concepts[i] \in
                              {<<"GraphQL">>, <<"WebSocket">>, <<"Middleware">>, <<"SSR">>}

\* a document for a snapshot with a file in every directory of buildModules
C26_Witness ==
    /\ DoneWithDocument
    /\ Len(analyzerResult.data.modules) = 9
    /\ result.tutorial.json.estimated_duration = <<"2-3 hours">>
    /\ result.tutorial.json.difficulty_level = <<"intermediate">>

----------------------------------------------------------------------------
(* The TutorialGenerator component *)

\* the entered texts that are GitHub repository URLs
ValidEnteredUrls ==
    { <<"https:", "/", "/", "github.com", "/", "facebook", "/", "react">>,
      <<"http:", "/", "/", "www.", "github.com", "/", "my-org", "/", "react", ".js", "/">> }

\* C27: handleGenerate invokes agentOrchestrator.generateTutorial only when
\* the entered URL is not blank and matches the GitHub repository URL
\* pattern; when the URL is blank or does not match, the orchestrator is not
\* invoked and isGenerating, currentAgent and learningJourney stay as they are.
C27_OrchestratorOnlyForGithubUrls ==
    [][ /\ Len(handlers') > Len(handlers) =>
              LET h == handlers'[Len(handlers')]
              IN  IF h.url \in ValidEnteredUrls
                  THEN h.pc = "timeout1" /\ isGenerating'
                  ELSE /\ h.pc = "rejected"
                       /\ UNCHANGED <<isGenerating, currentAgent, learningJourney,
                                      orchestratorCalls>>
        /\ orchestratorCalls' # orchestratorCalls =>
              /\ Len(orchestratorCalls') = Len(orchestratorCalls) + 1
              /\ orchestratorCalls'[Len(orchestratorCalls')] \in ValidEnteredUrls
              /\ \E h \in 1..Len(handlers) :
                     /\ handlers[h].pc = "timeout2"
                     /\ handlers[h].url = orchestratorCalls'[Len(orchestratorCalls')]
      ]_vars

\* a URL of another host was turned down while the journey of the run before
\* it stays on display
C27_Witness ==
    /\ Len(handlers) = 2
    /\ handlers[2].pc = "rejected"
    /\ handlers[2].url = <<"https:", "/", "/", "gitlab.com", "/", "facebook", "/", "react">>
    /\ learningJourney # JsonNull
    /\ Len(orchestratorCalls) = 1

\* C28: every handleGenerate run that sets isGenerating to true sets it back
\* to false and clears currentAgent, on every path (orchestrator success,
\* orchestrator failure, tutorial that does not parse); the component is not
\* left generating once the orchestrator call has resolved.
C28_GeneratingEventuallyEnds ==
    /\ isGenerating ~> (~isGenerating /\ currentAgent = <<>>)
    /\ [][ \A h \in 1..Len(handlers) :
               (handlers[h].pc = "generate" /\ handlers'[h].pc = "returned") =>
                   (~isGenerating' /\ currentAgent' = <<>>) ]_vars

\* a run whose tutorial did not parse has ended
C28_Witness ==
    /\ ~isGenerating
    /\ currentAgent = <<>>
    /\ \E h \in 1..Len(handlers) :
           /\ handlers[h].pc = "returned"
           /\ handlers[h].result.success
           /\ handlers[h].result.tutorial = [text |-> <<"# Tutorial">>]

\* the runs that passed the validation, and whether a result succeeded and parsed
Generations == {h \in 1..Len(handlers) : handlers[h].pc # "rejected"}

Parsed(res) ==
    /\ res.success
    /\ res.tutorial \in {Undefined, [text |-> <<>>]} \/ Has(res.tutorial, "json")

\* the journey that a parsed result gives: {} for a missing or empty tutorial
AbsentAsEmptyJourney(res) ==
    IF Has(res.tutorial, "json") THEN res.tutorial.json ELSE EmptyObject

\* C29: learningJourney is non-null only as the result of the most recent
\* generation having succeeded and parsed; it is cleared when a generation
\* starts, so after a generation that fails learningJourney is null and no
\* journey of an earlier run is displayed.
C29_JourneyOnlyFromLatestGeneration ==
    learningJourney # JsonNull =>
        /\ Generations # {}
        /\ LET latest == CHOOSE h \in Generations : \A g \in Generations : g <= h
           IN  /\ handlers[latest].pc = "returned"
               /\ Parsed(handlers[latest].result)
               /\ learningJourney = AbsentAsEmptyJourney(handlers[latest].result)

\* a generation that failed after one that had produced a journey
C29_Witness ==
    /\ Len(handlers) = 2
    /\ handlers[1].pc = "returned"
    /\ Parsed(handlers[1].result)
    /\ handlers[2].pc = "returned"
    /\ ~handlers[2].result.success
    /\ learningJourney = JsonNull

\* the runs between their first await and their return
InFlight == {h \in 1..Len(handlers) : handlers[h].pc \in {"timeout1", "timeout2", "generate"}}

\* C30: in one component at most one orchestrator run is in flight at any
\* time: while isGenerating is true the input and the button are disabled and
\* the example link is hidden, so no user event starts a second handleGenerate
\* before the first has finished.
C30_AtMostOneRunInFlight ==
    /\ Cardinality(InFlight) <= 1
    /\ InFlight # {} <=> isGenerating
    /\ Len(orchestratorCalls) <= Cardinality({h \in Generations : handlers[h].pc = "returned"}) + 1

\* a second run waits for the orchestrator after the first has returned
C30_Witness ==
    /\ Len(handlers) = 2
    /\ handlers[1].pc = "returned"
    /\ handlers[2].pc = "generate"
    /\ Len(orchestratorCalls) = 2

====
